---- MODULE Spec2Model ----
(***************************************************************************)
(* Price-protection claim pipeline: purchases, price observations, claims  *)
(* and the request handlers / scheduled jobs that read and write them.     *)
(*                                                                         *)
(* The database tables are the variables.  Every handler is an async       *)
(* function: it runs on a task, and each of its awaited database calls or  *)
(* external calls is one atomic step, so that two handlers interleave      *)
(* exactly at their await points.  Money is in whole currency units and    *)
(* time in whole days.                                                     *)
(***************************************************************************)
EXTENDS Integers, Sequences, FiniteSets, TLC

VARIABLES
    now,            \* the clock (new Date()), in days
    threshold,      \* user.priceDropThreshold (Unset = column never set)
    cards,          \* creditCard table: id -> row
    purchases,      \* purchase table: id -> row
    priceHistory,   \* priceHistory table: purchase id -> rows (prices) in insertion order
    task,           \* the running handlers: task id -> its position and locals
    claims,         \* claim table: id -> row
    filerVersion,   \* which autoClaimFiler module the deployment loads
    syncLogs,       \* emailSyncLog table: statuses in insertion order
    parserVersion,  \* which emailParser module the deployment loads
    arg,            \* the argument of the helper function under study
    ret,            \* <<>> until the helper has returned, then <<its result>>
    browser,        \* PriceMonitor.browser: 0 = null, else the engine it refers to
    launched,       \* engines started by puppeteer.launch() since the last cleanup()
    pages           \* pages open in the engines

claimVars == <<claims, filerVersion>>
callVars == <<arg, ret>>
browserVars == <<browser, launched, pages>>
mailVars == <<syncLogs, parserVersion, callVars, browserVars>>
vars == <<now, threshold, cards, purchases, priceHistory, task, claimVars, mailVars>>

\* the process has just started: no engine, no page
NoBrowser == browser = 0 /\ launched = 0 /\ pages = 0

\* no helper function is under study
NoCall == arg = <<>> /\ ret = <<>> /\ NoBrowser

----------------------------------------------------------------------------
(* Bounds of the model *)

MaxTasks == 2       \* handlers in flight at once
MaxPurchases == 3   \* rows of the purchase table
MaxManual == 1      \* purchases entered through POST /purchases
MaxCards == 2       \* rows of the creditCard table
MaxMessages == 2    \* messages in the mailbox
MaxSyncs == 2       \* rows of the emailSyncLog table
MaxClaims == 2      \* claims ever created (ids are never reused)
MaxHistory == 3     \* entries of a claim's statusHistory
MaxSends == 2       \* submissions counted per claim
MaxObs == 3         \* rows of priceHistory per purchase
MaxTime == 2        \* days the clock may advance
MaxEngines == 3     \* engines started between two cleanups
MaxPages == 3       \* pages open at once

Tasks == 1..MaxTasks
PurchaseIds == 1..MaxPurchases
CardIds == 1..MaxCards
MessageIds == 1..MaxMessages
ClaimIds == 1..MaxClaims

(* Inputs *)
PriceValues == {80, 95, 96}          \* prices a retailer page may show
PurchasePrices == {100}              \* prices of entered purchases
ThresholdValues == {10}              \* settings route: isFloat({min: 1, max: 100})

Unset == 0
NoDate == -1
NoCard == 0
NoPrice == 0
NoLastFour == 0
NoDays == 0         \* protectionDays not in the body (the validator wants 1..365)

----------------------------------------------------------------------------
(* Rows *)

NoPurchase ==
    [exists |-> FALSE, status |-> "NONE", purchasePrice |-> NoPrice,
     currentPrice |-> NoPrice, lowestPrice |-> NoPrice, card |-> NoCard,
     purchaseDate |-> 0, protectionEnds |-> NoDate, hasUrl |-> FALSE,
     sourceEmailId |-> 0]

\* the columns of a purchase row that the price handlers go on to use
NoSnap == [purchasePrice |-> NoPrice, lowestPrice |-> NoPrice, protectionEnds |-> NoDate]
Snap(row) ==
    [purchasePrice |-> row.purchasePrice, lowestPrice |-> row.lowestPrice,
     protectionEnds |-> row.protectionEnds]

NoUpdate == [status |-> "NONE", lowestPrice |-> NoPrice]

\* a claim row; sent counts the submissions that left for the issuer
NoClaim ==
    [status |-> "NONE", purchase |-> 0, card |-> NoCard, originalPrice |-> NoPrice, newPrice |-> NoPrice,
     priceDifference |-> 0, autoFiled |-> FALSE, statusHistory |-> <<>>,
     createdAt |-> 0, sent |-> 0]

ClaimExists(c) == claims[c].status \notin {"NONE", "DELETED"}

IdleTask ==
    [op |-> "idle", pc |-> "idle", pid |-> 0, psnap |-> NoSnap,
     thr |-> Unset, price |-> NoPrice, upd |-> NoUpdate, evalAt |-> 0,
     cid |-> 0, cstat |-> "NONE", hist |-> <<>>, tried |-> <<>>, queue |-> <<>>,
     orig |-> NoPrice, newp |-> NoPrice, card |-> NoCard, cap |-> 0, req |-> "NONE",
     result |-> "none", log |-> 0, mid |-> 0, items |-> 0, made |-> 0,
     issuer |-> "NONE", lastFour |-> NoLastFour, notified |-> 0,
     missing |-> FALSE, listed |-> <<>>, attempted |-> <<>>, checked |-> 0,
     errors |-> 0, failed |-> 0, days |-> NoDays, date |-> NoDate, ends |-> NoDate,
     page |-> FALSE, generic |-> FALSE]

Idle(t) == task[t].op = "idle"

RECURSIVE SeqMin(_)
SeqMin(s) ==
    IF Len(s) = 1 THEN s[1]
    ELSE LET m == SeqMin(Tail(s)) IN IF s[1] < m THEN s[1] ELSE m

Min2(a, b) == IF a <= b THEN a ELSE b

----------------------------------------------------------------------------
(* The clock *)

Tick ==
    /\ now < MaxTime
    /\ now' = now + 1
    /\ UNCHANGED <<threshold, cards, purchases, priceHistory, task, claimVars, mailVars>>

\* purchase.user?.priceDropThreshold || 5
DefaultThreshold == 5
EffectiveThreshold(thr) == IF thr = Unset THEN DefaultThreshold ELSE thr

----------------------------------------------------------------------------
(* POST /purchases: add a purchase manually *)

FreePurchaseIds == {p \in PurchaseIds : ~purchases[p].exists}
NewPurchaseId == CHOOSE p \in FreePurchaseIds : \A q \in FreePurchaseIds : p <= q

\* purchase.create, with protectionEnds = purchaseDate + card.protectionDays
AddPurchaseCreate(t, price, date, url, card) ==
    /\ Idle(t)
    /\ FreePurchaseIds # {}
    /\ Cardinality({p \in PurchaseIds : purchases[p].exists}) < MaxManual
    /\ card # NoCard => cards[card].exists
    /\ LET p == NewPurchaseId
           ends == IF card = NoCard THEN NoDate ELSE date + cards[card].protectionDays
       IN /\ purchases' = [purchases EXCEPT ![p] =
                [exists |-> TRUE, status |-> "MONITORING", purchasePrice |-> price,
                 currentPrice |-> price, lowestPrice |-> price, card |-> card,
                 purchaseDate |-> date, protectionEnds |-> ends, hasUrl |-> url,
                 sourceEmailId |-> 0]]
          /\ task' = [task EXCEPT ![t] =
                [IdleTask EXCEPT !.op = "addPurchase", !.pc = "ap_history",
                                 !.pid = p, !.price = price]]
    /\ UNCHANGED <<now, threshold, cards, priceHistory, claimVars, mailVars>>

\* priceHistory.create of the purchase price, then the fire-and-forget first check
AddPurchaseHistory(t) ==
    /\ task[t].pc = "ap_history"
    /\ LET p == task[t].pid IN
       /\ priceHistory' = [priceHistory EXCEPT ![p] = Append(@, task[t].price)]
       /\ task' = [task EXCEPT ![t] =
            IF purchases[p].hasUrl
            THEN [IdleTask EXCEPT !.op = "checkPrice", !.pc = "cp_read", !.pid = p]
            ELSE IdleTask]
    /\ UNCHANGED <<now, threshold, cards, purchases, claimVars, mailVars>>

----------------------------------------------------------------------------
(* PriceMonitor.checkPriceForPurchase *)

\* POST /purchases/:id/check-price, or one iteration of the scheduled sweep
\* checkPriceForPurchase returns: to the caller of the route or the single-check
\* job, or to the loop of checkAllEligiblePurchases, which counts checked++
\* whatever the result says (failed: checks of the sweep that did not succeed)
CheckReturn(t, success) ==
    IF task[t].op = "checkAll"
    THEN [IdleTask EXCEPT !.op = "checkAll", !.pc = "ca_next", !.queue = task[t].queue,
                          !.listed = task[t].listed, !.attempted = task[t].attempted,
                          !.checked = task[t].checked + 1, !.errors = task[t].errors,
                          !.failed = task[t].failed + IF success THEN 0 ELSE 1]
    ELSE IdleTask

CheckPriceStart(t, p) ==
    /\ Idle(t)
    /\ purchases[p].exists
    /\ purchases[p].hasUrl
    /\ Len(priceHistory[p]) < MaxObs
    /\ task' = [task EXCEPT ![t] =
            [IdleTask EXCEPT !.op = "checkPrice", !.pc = "cp_read", !.pid = p]]
    /\ UNCHANGED <<now, threshold, cards, purchases, priceHistory, claimVars, mailVars>>

\* purchase.findUnique({include: {user, creditCard}})
CheckPriceRead(t) ==
    /\ task[t].pc = "cp_read"
    /\ LET p == task[t].pid IN
       task' = [task EXCEPT ![t] =
            IF purchases[p].exists /\ purchases[p].hasUrl
            THEN [@ EXCEPT !.pc = "cp_scrape", !.psnap = Snap(purchases[p]), !.thr = threshold]
            ELSE CheckReturn(t, FALSE)]
    /\ UNCHANGED <<now, threshold, cards, purchases, priceHistory, claimVars, mailVars>>

\* scrapePrice: a price, or null when nothing parseable was found
CheckPriceScrape(t, price) ==
    /\ task[t].pc = "cp_scrape"
    /\ task' = [task EXCEPT ![t] =
            IF price = NoPrice THEN CheckReturn(t, FALSE)
            ELSE [@ EXCEPT !.pc = "cp_record", !.price = price]]
    /\ UNCHANGED <<now, threshold, cards, purchases, priceHistory, claimVars, mailVars>>

\* lines 131-150: the update the check decides on, from the row it read
PriceDrop(snap, price) == snap.purchasePrice - price

IsWithinProtection(snap, at) ==
    snap.protectionEnds # NoDate /\ snap.protectionEnds > at

MeetsThresholdMutant(snap, price, thr) ==
    PriceDrop(snap, price) > EffectiveThreshold(thr)
MeetsThreshold(snap, price, thr) ==
    PriceDrop(snap, price) >= EffectiveThreshold(thr)

UpdateData(snap, price, thr, at) ==
    [lowestPrice |->
        IF snap.lowestPrice = NoPrice \/ price < snap.lowestPrice
        THEN price ELSE NoPrice,
     status |->
        IF PriceDrop(snap, price) > 0 /\ MeetsThreshold(snap, price, thr)
        THEN IF IsWithinProtection(snap, at) THEN "CLAIM_ELIGIBLE"
             ELSE "PRICE_DROP_DETECTED"
        ELSE "NONE"]

\* priceHistory.create, then the synchronous eligibility decision
CheckPriceRecord(t) ==
    /\ task[t].pc = "cp_record"
    /\ LET p == task[t].pid
           u == UpdateData(task[t].psnap, task[t].price, task[t].thr, now)
       IN /\ priceHistory' = [priceHistory EXCEPT ![p] = Append(@, task[t].price)]
          /\ task' = [task EXCEPT ![t] =
                [@ EXCEPT !.pc = IF u.status = "NONE" THEN "cp_update" ELSE "cp_notify",
                          !.upd = u, !.evalAt = now]]
    /\ UNCHANGED <<now, threshold, cards, purchases, claimVars, mailVars>>

\* notification.create (PRICE_DROP)
CheckPriceNotify(t) ==
    /\ task[t].pc = "cp_notify"
    /\ task' = [task EXCEPT ![t].pc = "cp_update", ![t].notified = @ + 1]
    /\ UNCHANGED <<now, threshold, cards, purchases, priceHistory, claimVars, mailVars>>

\* purchase.update({data: updateData})
CheckPriceUpdate(t) ==
    /\ task[t].pc = "cp_update"
    /\ LET p == task[t].pid
           u == task[t].upd
       IN purchases' = [purchases EXCEPT ![p] =
            [@ EXCEPT !.currentPrice = task[t].price,
                      !.lowestPrice = IF u.lowestPrice = NoPrice THEN @ ELSE u.lowestPrice,
                      !.status = IF u.status = "NONE" THEN @ ELSE u.status]]
    /\ task' = [task EXCEPT ![t] = CheckReturn(t, TRUE)]
    /\ UNCHANGED <<now, threshold, cards, priceHistory, claimVars, mailVars>>

----------------------------------------------------------------------------
(* POST /purchases/:id/simulate-price-drop *)

\* purchase.findFirst({include: {user}})
SimulateRead(t, p, newPrice) ==
    /\ Idle(t)
    /\ purchases[p].exists
    /\ Len(priceHistory[p]) < MaxObs
    /\ task' = [task EXCEPT ![t] =
            [IdleTask EXCEPT !.op = "simulate", !.pc = "sim_update", !.pid = p,
                             !.psnap = Snap(purchases[p]), !.thr = threshold,
                             !.price = newPrice]]
    /\ UNCHANGED <<now, threshold, cards, purchases, priceHistory, claimVars, mailVars>>

\* purchase.update: currentPrice, lowestPrice and status are all overwritten
SimulateUpdate(t) ==
    /\ task[t].pc = "sim_update"
    /\ LET p == task[t].pid IN
       purchases' = [purchases EXCEPT ![p] =
            [@ EXCEPT !.currentPrice = task[t].price,
                      !.lowestPrice = task[t].price,
                      !.status = IF MeetsThreshold(task[t].psnap, task[t].price, task[t].thr)
                                 THEN "PRICE_DROP_DETECTED" ELSE "MONITORING"]]
    /\ task' = [task EXCEPT ![t].pc = "sim_history"]
    /\ UNCHANGED <<now, threshold, cards, priceHistory, claimVars, mailVars>>

\* priceHistory.create, then notification.create when the threshold is met
SimulateHistory(t) ==
    /\ task[t].pc = "sim_history"
    /\ priceHistory' = [priceHistory EXCEPT ![task[t].pid] = Append(@, task[t].price)]
    /\ task' = [task EXCEPT ![t] =
            IF MeetsThreshold(task[t].psnap, task[t].price, task[t].thr)
            THEN [@ EXCEPT !.pc = "sim_notify"] ELSE IdleTask]
    /\ UNCHANGED <<now, threshold, cards, purchases, claimVars, mailVars>>

SimulateNotify(t) ==
    /\ task[t].pc = "sim_notify"
    /\ task' = [task EXCEPT ![t] = IdleTask]
    /\ UNCHANGED <<now, threshold, cards, purchases, priceHistory, claimVars, mailVars>>

----------------------------------------------------------------------------
(* Price monitoring: the purchase routes and the price monitor *)

NoCardRow ==
    [exists |-> FALSE, issuer |-> "NONE", lastFour |-> 0, protectionDays |-> 0,
     maxClaimAmount |-> 0, autoClaimEnabled |-> FALSE]
TheCard ==
    [exists |-> TRUE, issuer |-> "Visa", lastFour |-> 1111, protectionDays |-> 1,
     maxClaimAmount |-> 500, autoClaimEnabled |-> TRUE]
OneCard(row) == [c \in CardIds |-> IF c = 1 THEN row ELSE NoCardRow]

InitPrice ==
    /\ now = 0
    /\ threshold \in ThresholdValues \cup {Unset}
    /\ cards = OneCard(TheCard)
    /\ purchases = [p \in PurchaseIds |-> NoPurchase]
    /\ priceHistory = [p \in PurchaseIds |-> <<>>]
    /\ task = [t \in Tasks |-> IdleTask]
    /\ claims = [c \in ClaimIds |-> NoClaim]
    /\ filerVersion = "email"
    /\ syncLogs = <<>>
    /\ parserVersion = "rules"
    /\ NoCall

NextPrice ==
    \/ Tick
    \/ \E t \in Tasks, price \in PurchasePrices, url \in BOOLEAN,
          card \in CardIds \cup {NoCard} :
            AddPurchaseCreate(t, price, now, url, card)
    \/ \E t \in Tasks : AddPurchaseHistory(t)
    \/ \E t \in Tasks, p \in PurchaseIds : CheckPriceStart(t, p)
    \/ \E t \in Tasks : CheckPriceRead(t)
    \/ \E t \in Tasks, price \in PriceValues \cup {NoPrice} : CheckPriceScrape(t, price)
    \/ \E t \in Tasks : CheckPriceRecord(t)
    \/ \E t \in Tasks : CheckPriceNotify(t)
    \/ \E t \in Tasks : CheckPriceUpdate(t)
    \/ \E t \in Tasks, p \in PurchaseIds, price \in PriceValues : SimulateRead(t, p, price)
    \/ \E t \in Tasks : SimulateUpdate(t)
    \/ \E t \in Tasks : SimulateHistory(t)
    \/ \E t \in Tasks : SimulateNotify(t)

SpecPrice == InitPrice /\ [][NextPrice]_vars

----------------------------------------------------------------------------
(* Claims about price monitoring *)

\* no handler is part-way through its writes to purchase p
Quiescent(p) == \A t \in Tasks : task[t].pid # p

\* C4: each purchase's lowestPrice equals the minimum of the prices recorded
\* for it in priceHistory (asked of a purchase no handler is still writing).
LowestPriceIsMinObservation ==
    \A p \in PurchaseIds :
        (purchases[p].exists /\ Quiescent(p) /\ priceHistory[p] # <<>>)
            => purchases[p].lowestPrice = SeqMin(priceHistory[p])

\* C10: when a price check that observed price p writes the purchase, the
\* status it leaves is CLAIM_ELIGIBLE if purchasePrice - p reaches the user's
\* threshold inside the protection window, PRICE_DROP_DETECTED if it reaches
\* the threshold outside the window, and otherwise the status is unchanged.
StatusAfterPriceCheck ==
    [][\A t \in Tasks :
        (task[t].pc = "cp_update" /\ task'[t].pc # "cp_update") =>
            LET p == task[t].pid
                drop == purchases[p].purchasePrice - task[t].price
                thr == IF threshold = Unset THEN DefaultThreshold ELSE threshold
                inWindow == /\ purchases[p].protectionEnds # NoDate
                            /\ purchases[p].protectionEnds > task[t].evalAt
            IN purchases'[p].status =
                    IF drop >= thr /\ inWindow THEN "CLAIM_ELIGIBLE"
                    ELSE IF drop >= thr THEN "PRICE_DROP_DETECTED"
                    ELSE purchases[p].status]_vars

\* C10 witness: purchase price 100, observed 80, default threshold 5, window
\* open: the completed check has left the purchase CLAIM_ELIGIBLE.
EligibleAfterDropTo80 ==
    \E p \in PurchaseIds :
        /\ Quiescent(p)
        /\ purchases[p].purchasePrice = 100
        /\ purchases[p].currentPrice = 80
        /\ priceHistory[p] = <<100, 80>>
        /\ threshold = Unset
        /\ purchases[p].protectionEnds > now
        /\ purchases[p].status = "CLAIM_ELIGIBLE"

----------------------------------------------------------------------------
(* Claims: the tables the claim handlers leave alone *)

envVars == <<now, threshold, cards, priceHistory, filerVersion, mailVars>>

FreeClaimIds == {c \in ClaimIds : claims[c].status = "NONE"}
NewClaimId == CHOOSE c \in FreeClaimIds : \A d \in FreeClaimIds : c <= d

\* where: {purchaseId, status: {notIn: ['DENIED', 'EXPIRED']}}
ActiveClaims(p) ==
    {c \in ClaimIds : /\ ClaimExists(c)
                      /\ claims[c].purchase = p
                      /\ claims[c].status \notin {"DENIED", "EXPIRED"}}

SetClaim(c, row) == claims' = [claims EXCEPT ![c] = row]
SetPurchaseStatus(p, st) == purchases' = [purchases EXCEPT ![p].status = st]
Finish(t) == task' = [task EXCEPT ![t] = IdleTask]
Goto(t, pc) == task' = [task EXCEPT ![t].pc = pc]

----------------------------------------------------------------------------
(* POST /claims: create a claim for a purchase *)

\* purchase.findFirst({include: {creditCard}}) and the eligibility checks
CreateClaimRead(t, p) ==
    /\ Idle(t)
    /\ purchases[p].exists
    /\ purchases[p].card # NoCard
    /\ cards[purchases[p].card].exists
    /\ purchases[p].status \in {"PRICE_DROP_DETECTED", "CLAIM_ELIGIBLE"}
    /\ ~(purchases[p].protectionEnds # NoDate /\ purchases[p].protectionEnds < now)
    /\ purchases[p].purchasePrice - purchases[p].lowestPrice > 0
    /\ task' = [task EXCEPT ![t] =
            [IdleTask EXCEPT !.op = "createClaim", !.pc = "cc_existing", !.pid = p,
                             !.orig = purchases[p].purchasePrice,
                             !.newp = purchases[p].lowestPrice,
                             !.card = purchases[p].card,
                             !.cap = cards[purchases[p].card].maxClaimAmount]]
    /\ UNCHANGED <<purchases, claims, envVars>>

\* claim.findFirst of an active claim: 409 when there is one
CreateClaimExisting(t) ==
    /\ task[t].pc = "cc_existing"
    /\ IF ActiveClaims(task[t].pid) # {} THEN Finish(t) ELSE Goto(t, "cc_create")
    /\ UNCHANGED <<purchases, claims, envVars>>

\* Math.min(priceDifference, creditCard.maxClaimAmount)
ClaimAmount(diff, cap) == Min2(diff, cap)

\* claim.create({status: 'DRAFT'})
CreateClaimCreate(t) ==
    /\ task[t].pc = "cc_create"
    /\ FreeClaimIds # {}
    /\ LET c == NewClaimId IN
       /\ SetClaim(c, [NoClaim EXCEPT !.status = "DRAFT", !.purchase = task[t].pid,
                          !.card = task[t].card,
                          !.originalPrice = task[t].orig, !.newPrice = task[t].newp,
                          !.priceDifference =
                              ClaimAmount(task[t].orig - task[t].newp, task[t].cap),
                          !.createdAt = now])
       /\ task' = [task EXCEPT ![t].pc = "cc_purchase", ![t].cid = c]
    /\ UNCHANGED <<purchases, envVars>>

\* purchase.update({status: 'CLAIM_ELIGIBLE'})
CreateClaimPurchase(t) ==
    /\ task[t].pc = "cc_purchase"
    /\ SetPurchaseStatus(task[t].pid, "CLAIM_ELIGIBLE")
    /\ Finish(t)
    /\ UNCHANGED <<claims, envVars>>

----------------------------------------------------------------------------
(* PATCH /claims/:id/status *)

StatusInputs == {"PENDING_REVIEW", "APPROVED", "DENIED"}

\* claim.findFirst; no condition on the claim's current status
PatchStatusRead(t, c, st) ==
    /\ Idle(t)
    /\ ClaimExists(c)
    /\ task' = [task EXCEPT ![t] =
            [IdleTask EXCEPT !.op = "patchStatus", !.cid = c, !.pid = claims[c].purchase,
                             !.req = st,
                             !.pc = IF st \in {"APPROVED", "DENIED"}
                                    THEN "ps_purchase" ELSE "ps_update"]]
    /\ UNCHANGED <<purchases, claims, envVars>>

\* purchase.update to CLAIM_APPROVED / CLAIM_DENIED, before the claim is written
PatchStatusPurchase(t) ==
    /\ task[t].pc = "ps_purchase"
    /\ SetPurchaseStatus(task[t].pid,
            IF task[t].req = "APPROVED" THEN "CLAIM_APPROVED" ELSE "CLAIM_DENIED")
    /\ Goto(t, "ps_update")
    /\ UNCHANGED <<claims, envVars>>

\* claim.update({status}), then notification.create; throws if the row is gone
PatchStatusUpdate(t) ==
    /\ task[t].pc = "ps_update"
    /\ LET c == task[t].cid IN
       IF ClaimExists(c)
       THEN SetClaim(c, [claims[c] EXCEPT !.status = task[t].req])
       ELSE UNCHANGED claims
    /\ Finish(t)
    /\ UNCHANGED <<purchases, envVars>>

----------------------------------------------------------------------------
(* POST /claims/:id/file: the user marks the claim as filed *)

MarkFiledRead(t, c) ==
    /\ Idle(t)
    /\ ClaimExists(c)
    /\ claims[c].status \in {"DRAFT", "READY_TO_FILE"}
    /\ task' = [task EXCEPT ![t] =
            [IdleTask EXCEPT !.op = "markFiled", !.pc = "mf_update", !.cid = c,
                             !.pid = claims[c].purchase]]
    /\ UNCHANGED <<purchases, claims, envVars>>

\* claim.update({status: 'FILED'})
MarkFiledUpdate(t) ==
    /\ task[t].pc = "mf_update"
    /\ LET c == task[t].cid IN
       IF ClaimExists(c)
       THEN SetClaim(c, [claims[c] EXCEPT !.status = "FILED"]) /\ Goto(t, "mf_purchase")
       ELSE UNCHANGED claims /\ Finish(t)
    /\ UNCHANGED <<purchases, envVars>>

\* purchase.update({status: 'CLAIM_FILED'})
MarkFiledPurchase(t) ==
    /\ task[t].pc = "mf_purchase"
    /\ SetPurchaseStatus(task[t].pid, "CLAIM_FILED")
    /\ Goto(t, "mf_notify")
    /\ UNCHANGED <<claims, envVars>>

\* notification.create, then res.json(updatedClaim)
MarkFiledNotify(t) ==
    /\ task[t].pc = "mf_notify"
    /\ Finish(t)
    /\ UNCHANGED <<purchases, claims, envVars>>

----------------------------------------------------------------------------
(* POST /claims/:id/generate-docs *)

GenerateDocsRead(t, c) ==
    /\ Idle(t)
    /\ ClaimExists(c)
    /\ task' = [task EXCEPT ![t] =
            [IdleTask EXCEPT !.op = "generateDocs", !.pc = "gd_doc", !.cid = c]]
    /\ UNCHANGED <<purchases, claims, envVars>>

\* claimService.generateClaimDocumentation: a document, or a throw
GenerateDocsBuild(t, ok) ==
    /\ task[t].pc = "gd_doc"
    /\ IF ok THEN Goto(t, "gd_update") ELSE Finish(t)
    /\ UNCHANGED <<purchases, claims, envVars>>

\* claim.update({status: 'READY_TO_FILE'}) whatever the status was
GenerateDocsUpdate(t) ==
    /\ task[t].pc = "gd_update"
    /\ LET c == task[t].cid IN
       IF ClaimExists(c)
       THEN SetClaim(c, [claims[c] EXCEPT !.status = "READY_TO_FILE"])
       ELSE UNCHANGED claims
    /\ Finish(t)
    /\ UNCHANGED <<purchases, envVars>>

----------------------------------------------------------------------------
(* DELETE /claims/:id *)

DeleteClaimRead(t, c) ==
    /\ Idle(t)
    /\ ClaimExists(c)
    /\ claims[c].status = "DRAFT"
    /\ task' = [task EXCEPT ![t] =
            [IdleTask EXCEPT !.op = "deleteClaim", !.pc = "dc_delete", !.cid = c,
                             !.pid = claims[c].purchase]]
    /\ UNCHANGED <<purchases, claims, envVars>>

\* claim.delete
DeleteClaimDelete(t) ==
    /\ task[t].pc = "dc_delete"
    /\ LET c == task[t].cid IN
       IF ClaimExists(c)
       THEN SetClaim(c, [claims[c] EXCEPT !.status = "DELETED"]) /\ Goto(t, "dc_purchase")
       ELSE UNCHANGED claims /\ Finish(t)
    /\ UNCHANGED <<purchases, envVars>>

\* purchase.update({status: 'PRICE_DROP_DETECTED'})
DeleteClaimPurchase(t) ==
    /\ task[t].pc = "dc_purchase"
    /\ SetPurchaseStatus(task[t].pid, "PRICE_DROP_DETECTED")
    /\ Finish(t)
    /\ UNCHANGED <<claims, envVars>>

----------------------------------------------------------------------------
(* AutoClaimService.updateClaimStatus *)

UpdateClaimStatusRead(t, c, st) ==
    /\ Idle(t)
    /\ ClaimExists(c)
    /\ Len(claims[c].statusHistory) < MaxHistory
    /\ task' = [task EXCEPT ![t] =
            [IdleTask EXCEPT !.op = "updateClaimStatus", !.pc = "uc_update", !.cid = c,
                             !.req = st, !.hist = claims[c].statusHistory]]
    /\ UNCHANGED <<purchases, claims, envVars>>

\* claim.update({status, statusHistory}) with the entry pushed onto the array read
UpdateClaimStatusUpdate(t) ==
    /\ task[t].pc = "uc_update"
    /\ LET c == task[t].cid IN
       IF ClaimExists(c)
       THEN SetClaim(c, [claims[c] EXCEPT !.status = task[t].req,
                            !.statusHistory = Append(task[t].hist, task[t].req)])
       ELSE UNCHANGED claims
    /\ Finish(t)
    /\ UNCHANGED <<purchases, envVars>>

----------------------------------------------------------------------------
(* Filing: what every filer shares *)

FilerEntry == IF filerVersion = "portal" THEN "pf_load" ELSE "ef_load"

\* the filer hands its result back to the handler that called it
Return(t, res) ==
    task' = [task EXCEPT ![t] =
        IF task[t].op = "retry"
        THEN [IdleTask EXCEPT !.op = "retry", !.pc = "rt_next", !.queue = task[t].queue]
        ELSE IF task[t].op = "catchUp"
        THEN [IdleTask EXCEPT !.op = "catchUp", !.queue = task[t].queue,
                              !.pid = task[t].pid,
                              !.pc = IF res = "success" THEN "cu_mark" ELSE "cu_next"]
        ELSE IdleTask]

\* one submission has left for the issuer over the named channel
Submit(t) ==
    /\ claims[task[t].cid].sent < MaxSends
    /\ claims' = [claims EXCEPT ![task[t].cid].sent = @ + 1]

Tried(t, attempt, pc) ==
    task' = [task EXCEPT ![t].tried = Append(@, attempt), ![t].pc = pc]

----------------------------------------------------------------------------
(* autoClaimFiler.autoFileClaim, email version: Gmail, then SendGrid *)

\* claim.findUnique({include: {purchase, creditCard, user}}); no status check
EmailFilerLoad(t) ==
    /\ task[t].pc = "ef_load"
    /\ LET c == task[t].cid IN
       IF ~ClaimExists(c) THEN Return(t, "throw")
       ELSE /\ Len(claims[c].statusHistory) < MaxHistory
            /\ task' = [task EXCEPT ![t].pc = "ef_doc", ![t].pid = claims[c].purchase,
                                    ![t].cstat = claims[c].status,
                                    ![t].hist = claims[c].statusHistory]
    /\ UNCHANGED <<purchases, claims, envVars>>

\* generateClaimDocumentation (and the best-effort price screenshot)
EmailFilerDoc(t, ok) ==
    /\ task[t].pc = "ef_doc"
    /\ Goto(t, IF ok THEN "ef_gmail" ELSE "ef_catch")
    /\ UNCHANGED <<purchases, claims, envVars>>

\* sendClaimEmailViaGmail, as the user
EmailFilerGmail(t, ok) ==
    /\ task[t].pc = "ef_gmail"
    /\ IF ok THEN Submit(t) /\ Tried(t, "gmail_ok", "ef_update")
       ELSE UNCHANGED claims /\ Tried(t, "gmail_failed", "ef_sendgrid")
    /\ UNCHANGED <<purchases, envVars>>

\* sendClaimEmailViaSendGrid, in the catch of the Gmail send
EmailFilerSendGrid(t, ok) ==
    /\ task[t].pc = "ef_sendgrid"
    /\ IF ok THEN Submit(t) /\ Tried(t, "sendgrid_ok", "ef_update")
       ELSE UNCHANGED claims /\ Tried(t, "sendgrid_failed", "ef_catch")
    /\ UNCHANGED <<purchases, envVars>>

\* claim.update to EMAIL_SENT with the history read at load plus one entry
EmailFilerUpdate(t, ok) ==
    /\ task[t].pc = "ef_update"
    /\ LET c == task[t].cid IN
       IF ok /\ ClaimExists(c)
       THEN /\ SetClaim(c, [claims[c] EXCEPT !.status = "EMAIL_SENT", !.autoFiled = TRUE,
                               !.statusHistory = Append(task[t].hist, "EMAIL_SENT")])
            /\ Goto(t, "ef_purchase")
       ELSE UNCHANGED claims /\ Goto(t, "ef_catch")
    /\ UNCHANGED <<purchases, envVars>>

\* purchase.update({status: 'CLAIM_FILED'}), notification.create, return success
EmailFilerPurchase(t) ==
    /\ task[t].pc = "ef_purchase"
    /\ SetPurchaseStatus(task[t].pid, "CLAIM_FILED")
    /\ Return(t, "success")
    /\ UNCHANGED <<claims, envVars>>

\* the outer catch: claim.update to READY_TO_FILE with an ERROR entry
EmailFilerCatch(t) ==
    /\ task[t].pc = "ef_catch"
    /\ LET c == task[t].cid IN
       IF ClaimExists(c)
       THEN /\ SetClaim(c, [claims[c] EXCEPT !.status = "READY_TO_FILE",
                               !.statusHistory = Append(task[t].hist, "ERROR")])
            /\ Return(t, "failure")
       ELSE UNCHANGED claims /\ Return(t, "throw")
    /\ UNCHANGED <<purchases, envVars>>

----------------------------------------------------------------------------
(* autoClaimFiler.autoFileClaim, portal version, with its email fallback *)

PortalIssuers == {"Chase", "Citi", "Discover"}

\* claim.findUnique; no status check; no portal for the issuer: straight to email
PortalFilerLoad(t) ==
    /\ task[t].pc = "pf_load"
    /\ LET c == task[t].cid IN
       IF ~ClaimExists(c) THEN Return(t, "throw")
       ELSE task' = [task EXCEPT ![t].pid = claims[c].purchase,
                                 ![t].cstat = claims[c].status,
                                 ![t].pc = IF cards[claims[c].card].issuer \in PortalIssuers
                                           THEN "pf_doc" ELSE "cs_load"]
    /\ UNCHANGED <<purchases, claims, envVars>>

\* puppeteer.launch and generateClaimDocumentation; a throw falls back to email
PortalFilerDoc(t, ok) ==
    /\ task[t].pc = "pf_doc"
    /\ Goto(t, IF ok THEN "pf_steps" ELSE "cs_load")
    /\ UNCHANGED <<purchases, claims, envVars>>

\* the portal steps: every step runs even after one has failed, so the submit
\* button can be clicked on a run that ends with stepSuccess false
PortalOutcomes == {"submitted", "submittedAfterError", "notSubmitted"}

\* missing: a click, select, fill or upload step found none of its selectors;
\* tryClick and tryFillField return false, the select and upload loops fall
\* through, and none of them touches stepSuccess
PortalFilerSteps(t, outcome, missing) ==
    /\ task[t].pc = "pf_steps"
    /\ IF outcome = "notSubmitted" THEN UNCHANGED claims ELSE Submit(t)
    /\ task' = [task EXCEPT ![t].tried = Append(@, IF outcome = "submitted" THEN "portal_ok"
                                                   ELSE "portal_failed"),
                            ![t].pc = IF outcome = "submitted" THEN "pf_update" ELSE "cs_load",
                            ![t].missing = missing]
    /\ UNCHANGED <<purchases, envVars>>

\* claim.update to FILED; statusHistory is written as a new one-entry array
PortalFilerUpdate(t, ok) ==
    /\ task[t].pc = "pf_update"
    /\ LET c == task[t].cid IN
       IF ok /\ ClaimExists(c)
       THEN /\ SetClaim(c, [claims[c] EXCEPT !.status = "FILED", !.autoFiled = TRUE,
                               !.statusHistory = <<"FILED">>])
            /\ Goto(t, "pf_purchase")
       ELSE UNCHANGED claims /\ Goto(t, "cs_load")
    /\ UNCHANGED <<purchases, envVars>>

\* purchase.update({status: 'CLAIM_FILED'}), notification.create, return success
PortalFilerPurchase(t) ==
    /\ task[t].pc = "pf_purchase"
    /\ SetPurchaseStatus(task[t].pid, "CLAIM_FILED")
    /\ Return(t, "success")
    /\ UNCHANGED <<claims, envVars>>

\* fileClaimViaEmail -> ClaimService.autoFileClaim: claim.findUnique
ClaimServiceLoad(t) ==
    /\ task[t].pc = "cs_load"
    /\ Goto(t, IF ClaimExists(task[t].cid) THEN "cs_doc" ELSE "pv_catch")
    /\ UNCHANGED <<purchases, claims, envVars>>

\* generateClaimDocumentation, outside any try of ClaimService.autoFileClaim
ClaimServiceDoc(t, ok) ==
    /\ task[t].pc = "cs_doc"
    /\ Goto(t, IF ok THEN "cs_send" ELSE "pv_catch")
    /\ UNCHANGED <<purchases, claims, envVars>>

\* sendClaimEmail through the service's own mail account
ClaimServiceSend(t, ok) ==
    /\ task[t].pc = "cs_send"
    /\ IF ok THEN Submit(t) /\ Tried(t, "smtp_ok", "cs_update")
       ELSE UNCHANGED claims /\ Tried(t, "smtp_failed", "cs_failed")
    /\ UNCHANGED <<purchases, envVars>>

\* the catch of the send: claim.update to READY_TO_FILE, return failure
ClaimServiceFailed(t) ==
    /\ task[t].pc = "cs_failed"
    /\ LET c == task[t].cid IN
       IF ClaimExists(c)
       THEN SetClaim(c, [claims[c] EXCEPT !.status = "READY_TO_FILE"])
            /\ Return(t, "failure")
       ELSE UNCHANGED claims /\ Goto(t, "pv_catch")
    /\ UNCHANGED <<purchases, envVars>>

\* claim.update to FILED
ClaimServiceUpdate(t, ok) ==
    /\ task[t].pc = "cs_update"
    /\ LET c == task[t].cid IN
       IF ok /\ ClaimExists(c)
       THEN SetClaim(c, [claims[c] EXCEPT !.status = "FILED"]) /\ Goto(t, "cs_purchase")
       ELSE UNCHANGED claims /\ Goto(t, "pv_catch")
    /\ UNCHANGED <<purchases, envVars>>

\* purchase.update({status: 'CLAIM_FILED'}), notification.create, return success
ClaimServicePurchase(t) ==
    /\ task[t].pc = "cs_purchase"
    /\ SetPurchaseStatus(task[t].pid, "CLAIM_FILED")
    /\ Return(t, "success")
    /\ UNCHANGED <<claims, envVars>>

\* the catch of fileClaimViaEmail: claim.update to READY_TO_FILE, return failure
FileViaEmailCatch(t) ==
    /\ task[t].pc = "pv_catch"
    /\ LET c == task[t].cid IN
       IF ClaimExists(c)
       THEN SetClaim(c, [claims[c] EXCEPT !.status = "READY_TO_FILE"])
            /\ Return(t, "failure")
       ELSE UNCHANGED claims /\ Return(t, "throw")
    /\ UNCHANGED <<purchases, envVars>>

----------------------------------------------------------------------------
(* AutoClaimService.fileClaimViaEmail: SendGrid only *)

\* claim.findUnique({include: {purchase, creditCard, user}})
ServiceFilerLoad(t) ==
    /\ task[t].pc = "as_load"
    /\ LET c == task[t].cid IN
       IF ~ClaimExists(c) THEN Return(t, "throw")
       ELSE /\ Len(claims[c].statusHistory) < MaxHistory
            /\ task' = [task EXCEPT ![t].pc = "as_doc", ![t].pid = claims[c].purchase,
                                    ![t].cstat = claims[c].status,
                                    ![t].hist = claims[c].statusHistory]
    /\ UNCHANGED <<purchases, claims, envVars>>

ServiceFilerDoc(t, ok) ==
    /\ task[t].pc = "as_doc"
    /\ Goto(t, IF ok THEN "as_send" ELSE "as_catch")
    /\ UNCHANGED <<purchases, claims, envVars>>

\* this.sendClaimEmail: sgMail.send
ServiceFilerSend(t, ok) ==
    /\ task[t].pc = "as_send"
    /\ IF ok THEN Submit(t) /\ Tried(t, "sendgrid_ok", "as_update")
       ELSE UNCHANGED claims /\ Tried(t, "sendgrid_failed", "as_catch")
    /\ UNCHANGED <<purchases, envVars>>

\* EMAIL_SENT is pushed onto the array read at load, then claim.update
ServiceFilerUpdate(t, ok) ==
    /\ task[t].pc = "as_update"
    /\ LET c == task[t].cid
           h == Append(task[t].hist, "EMAIL_SENT")
       IN IF ok /\ ClaimExists(c)
          THEN /\ SetClaim(c, [claims[c] EXCEPT !.status = "EMAIL_SENT", !.autoFiled = TRUE,
                                  !.statusHistory = h])
               /\ task' = [task EXCEPT ![t].pc = "as_purchase", ![t].hist = h]
          ELSE /\ UNCHANGED claims
               /\ task' = [task EXCEPT ![t].pc = "as_catch", ![t].hist = h]
    /\ UNCHANGED <<purchases, envVars>>

\* purchase.update({status: 'CLAIM_FILED'}), notification.create, return success
ServiceFilerPurchase(t) ==
    /\ task[t].pc = "as_purchase"
    /\ SetPurchaseStatus(task[t].pid, "CLAIM_FILED")
    /\ Return(t, "success")
    /\ UNCHANGED <<claims, envVars>>

\* the catch: claim.update({statusHistory, responseNotes}), status untouched; rethrow
ServiceFilerCatch(t) ==
    /\ task[t].pc = "as_catch"
    /\ LET c == task[t].cid IN
       IF ClaimExists(c)
       THEN SetClaim(c, [claims[c] EXCEPT !.statusHistory = Append(task[t].hist, "ERROR")])
       ELSE UNCHANGED claims
    /\ Return(t, "throw")
    /\ UNCHANGED <<purchases, envVars>>

----------------------------------------------------------------------------
(* AutoClaimService.createAndFileClaim *)

\* purchase.findUnique, creditCard.findUnique, the price difference
CreateAndFileRead(t, p, card) ==
    /\ Idle(t)
    /\ purchases[p].exists
    /\ cards[card].exists
    /\ LET low == IF purchases[p].lowestPrice # NoPrice THEN purchases[p].lowestPrice
                  ELSE purchases[p].currentPrice
       IN /\ purchases[p].purchasePrice - low > 0
          /\ task' = [task EXCEPT ![t] =
                [IdleTask EXCEPT !.op = "createAndFile", !.pc = "cf_create", !.pid = p,
                                 !.orig = purchases[p].purchasePrice, !.newp = low,
                                 !.card = card, !.cap = cards[card].maxClaimAmount]]
    /\ UNCHANGED <<purchases, claims, envVars>>

\* claim.create({status: 'DRAFT', statusHistory: [DRAFT]}), then fileClaimViaEmail
CreateAndFileCreate(t) ==
    /\ task[t].pc = "cf_create"
    /\ FreeClaimIds # {}
    /\ LET c == NewClaimId IN
       /\ SetClaim(c, [NoClaim EXCEPT !.status = "DRAFT", !.purchase = task[t].pid,
                          !.card = task[t].card,
                          !.originalPrice = task[t].orig, !.newPrice = task[t].newp,
                          !.priceDifference =
                              ClaimAmount(task[t].orig - task[t].newp, task[t].cap),
                          !.statusHistory = <<"DRAFT">>, !.createdAt = now])
       /\ task' = [task EXCEPT ![t].pc = "as_load", ![t].cid = c]
    /\ UNCHANGED <<purchases, envVars>>

----------------------------------------------------------------------------
(* POST /claims/:id/auto-file *)

\* claim.findFirst and the status check of the route, then autoFileClaim
AutoFileRouteCheck(t, c) ==
    /\ Idle(t)
    /\ ClaimExists(c)
    /\ claims[c].status \in {"DRAFT", "READY_TO_FILE", "PENDING"}
    /\ task' = [task EXCEPT ![t] =
            [IdleTask EXCEPT !.op = "autoFileRoute", !.pc = FilerEntry, !.cid = c]]
    /\ UNCHANGED <<purchases, claims, envVars>>

----------------------------------------------------------------------------
(* The retry sweep (every 2 hours) *)

RetryWindowDays == 7

StuckClaim(c) ==
    /\ ClaimExists(c)
    /\ claims[c].autoFiled
    /\ claims[c].status \in {"DRAFT", "READY_TO_FILE"}
    /\ claims[c].createdAt >= now - RetryWindowDays

\* claim.findMany({include: {purchase: {protectionEnds}, creditCard: {autoClaimEnabled}}})
RetryList(t) ==
    /\ Idle(t)
    /\ \E c \in ClaimIds : StuckClaim(c)
    /\ LET rows == [c \in ClaimIds |->
                      [cid |-> c,
                       auto |-> cards[claims[c].card].autoClaimEnabled,
                       ends |-> purchases[claims[c].purchase].protectionEnds]]
       IN task' = [task EXCEPT ![t] =
            [IdleTask EXCEPT !.op = "retry", !.pc = "rt_next",
                 !.queue = SelectSeq([c \in ClaimIds |-> IF StuckClaim(c) THEN rows[c]
                                                          ELSE [cid |-> 0]],
                                     LAMBDA r : r.cid # 0)]]
    /\ UNCHANGED <<purchases, claims, envVars>>

\* one iteration: the two skips, then autoClaimFiler.autoFileClaim(claim.id)
RetryNext(t) ==
    /\ task[t].pc = "rt_next"
    /\ IF task[t].queue = <<>> THEN Finish(t)
       ELSE LET r == Head(task[t].queue) IN
            IF ~r.auto \/ (r.ends # NoDate /\ r.ends < now)
            THEN task' = [task EXCEPT ![t].queue = Tail(@)]
            ELSE task' = [task EXCEPT ![t].queue = Tail(@), ![t].cid = r.cid,
                                      ![t].pc = FilerEntry]
    /\ UNCHANGED <<purchases, claims, envVars>>

----------------------------------------------------------------------------
(* The catch-up sweep (every 3 hours) *)

EligiblePurchase(p) ==
    /\ purchases[p].exists
    /\ purchases[p].status \in {"CLAIM_ELIGIBLE", "PRICE_DROP_DETECTED"}
    /\ purchases[p].card # NoCard
    /\ purchases[p].protectionEnds # NoDate
    /\ purchases[p].protectionEnds > now
    /\ purchases[p].currentPrice # NoPrice

\* purchase.findMany({include: {creditCard, user}})
CatchUpList(t) ==
    /\ Idle(t)
    /\ \E p \in PurchaseIds : EligiblePurchase(p)
    /\ LET row(p) == [pid |-> p, orig |-> purchases[p].purchasePrice,
                      cur |-> purchases[p].currentPrice, card |-> purchases[p].card,
                      cap |-> cards[purchases[p].card].maxClaimAmount,
                      auto |-> cards[purchases[p].card].autoClaimEnabled,
                      thr |-> threshold]
       IN task' = [task EXCEPT ![t] =
            [IdleTask EXCEPT !.op = "catchUp", !.pc = "cu_next",
                 !.queue = SelectSeq([p \in PurchaseIds |-> IF EligiblePurchase(p) THEN row(p)
                                                             ELSE [pid |-> 0]],
                                     LAMBDA r : r.pid # 0)]]
    /\ UNCHANGED <<purchases, claims, envVars>>

\* one iteration, up to the look-up of an existing claim
CatchUpNext(t) ==
    /\ task[t].pc = "cu_next"
    /\ IF task[t].queue = <<>> THEN Finish(t)
       ELSE LET r == Head(task[t].queue) IN
            IF ~r.auto \/ r.orig - r.cur <= 0 \/ r.orig - r.cur < EffectiveThreshold(r.thr)
            THEN task' = [task EXCEPT ![t].queue = Tail(@)]
            ELSE task' = [task EXCEPT ![t].queue = Tail(@), ![t].pid = r.pid,
                                      ![t].orig = r.orig, ![t].newp = r.cur,
                                      ![t].card = r.card, ![t].cap = r.cap,
                                      ![t].pc = "cu_existing"]
    /\ UNCHANGED <<purchases, claims, envVars>>

\* claim.findFirst of an active claim: skip the purchase when there is one
CatchUpExisting(t) ==
    /\ task[t].pc = "cu_existing"
    /\ Goto(t, IF ActiveClaims(task[t].pid) # {} THEN "cu_next" ELSE "cu_create")
    /\ UNCHANGED <<purchases, claims, envVars>>

\* purchase.creditCard.maxClaimAmount || 500
DefaultMaxClaimAmount == 500
CatchUpCap(cap) == IF cap = 0 THEN DefaultMaxClaimAmount ELSE cap

\* claim.create({status: 'DRAFT', autoFiled: true, statusHistory: [DRAFT]}),
\* then autoClaimFiler.autoFileClaim(claim.id)
CatchUpCreate(t) ==
    /\ task[t].pc = "cu_create"
    /\ FreeClaimIds # {}
    /\ LET c == NewClaimId IN
       /\ SetClaim(c, [NoClaim EXCEPT !.status = "DRAFT", !.purchase = task[t].pid,
                          !.card = task[t].card,
                          !.originalPrice = task[t].orig, !.newPrice = task[t].newp,
                          !.priceDifference =
                              Min2(task[t].orig - task[t].newp, CatchUpCap(task[t].cap)),
                          !.autoFiled = TRUE, !.statusHistory = <<"DRAFT">>,
                          !.createdAt = now])
       /\ task' = [task EXCEPT ![t].pc = FilerEntry, ![t].cid = c]
    /\ UNCHANGED <<purchases, envVars>>

\* result.success: purchase.update({status: 'CLAIM_FILED'})
CatchUpMark(t) ==
    /\ task[t].pc = "cu_mark"
    /\ SetPurchaseStatus(task[t].pid, "CLAIM_FILED")
    /\ Goto(t, "cu_next")
    /\ UNCHANGED <<claims, envVars>>

----------------------------------------------------------------------------
(* Claim creation: a purchase whose price has dropped from 100 to 80, and    *)
(* every path that creates a claim for it                                    *)

CapValues == {0, 15, 500}       \* card routes: maxClaimAmount isFloat({min: 0})

DroppedPurchase ==
    [exists |-> TRUE, status |-> "CLAIM_ELIGIBLE", purchasePrice |-> 100,
     currentPrice |-> 80, lowestPrice |-> 80, card |-> 1, purchaseDate |-> 0,
     protectionEnds |-> 1, hasUrl |-> TRUE, sourceEmailId |-> 0]

OnePurchase(row) == [p \in PurchaseIds |-> IF p = 1 THEN row ELSE NoPurchase]

InitCreate ==
    /\ now = 0
    /\ threshold = Unset
    /\ filerVersion = "email"
    /\ \E cap \in CapValues : cards = OneCard([TheCard EXCEPT !.maxClaimAmount = cap])
    /\ purchases = OnePurchase(DroppedPurchase)
    /\ priceHistory = [p \in PurchaseIds |-> IF p = 1 THEN <<100, 80>> ELSE <<>>]
    /\ task = [t \in Tasks |-> IdleTask]
    /\ claims = [c \in ClaimIds |-> NoClaim]
    /\ syncLogs = <<>>
    /\ parserVersion = "rules"
    /\ NoCall

EmailFilerStep ==
    \/ \E t \in Tasks : EmailFilerLoad(t)
    \/ \E t \in Tasks, ok \in BOOLEAN : EmailFilerDoc(t, ok)
    \/ \E t \in Tasks, ok \in BOOLEAN : EmailFilerGmail(t, ok)
    \/ \E t \in Tasks, ok \in BOOLEAN : EmailFilerSendGrid(t, ok)
    \/ \E t \in Tasks, ok \in BOOLEAN : EmailFilerUpdate(t, ok)
    \/ \E t \in Tasks : EmailFilerPurchase(t)
    \/ \E t \in Tasks : EmailFilerCatch(t)

PortalFilerStep ==
    \/ \E t \in Tasks : PortalFilerLoad(t)
    \/ \E t \in Tasks, ok \in BOOLEAN : PortalFilerDoc(t, ok)
    \/ \E t \in Tasks, outcome \in PortalOutcomes, missing \in BOOLEAN :
            PortalFilerSteps(t, outcome, missing)
    \/ \E t \in Tasks, ok \in BOOLEAN : PortalFilerUpdate(t, ok)
    \/ \E t \in Tasks : PortalFilerPurchase(t)
    \/ \E t \in Tasks : ClaimServiceLoad(t)
    \/ \E t \in Tasks, ok \in BOOLEAN : ClaimServiceDoc(t, ok)
    \/ \E t \in Tasks, ok \in BOOLEAN : ClaimServiceSend(t, ok)
    \/ \E t \in Tasks : ClaimServiceFailed(t)
    \/ \E t \in Tasks, ok \in BOOLEAN : ClaimServiceUpdate(t, ok)
    \/ \E t \in Tasks : ClaimServicePurchase(t)
    \/ \E t \in Tasks : FileViaEmailCatch(t)

ServiceFilerStep ==
    \/ \E t \in Tasks : ServiceFilerLoad(t)
    \/ \E t \in Tasks, ok \in BOOLEAN : ServiceFilerDoc(t, ok)
    \/ \E t \in Tasks, ok \in BOOLEAN : ServiceFilerSend(t, ok)
    \/ \E t \in Tasks, ok \in BOOLEAN : ServiceFilerUpdate(t, ok)
    \/ \E t \in Tasks : ServiceFilerPurchase(t)
    \/ \E t \in Tasks : ServiceFilerCatch(t)

PatchStatusStep ==
    \/ \E t \in Tasks, c \in ClaimIds, st \in StatusInputs : PatchStatusRead(t, c, st)
    \/ \E t \in Tasks : PatchStatusPurchase(t)
    \/ \E t \in Tasks : PatchStatusUpdate(t)

NextCreate ==
    \/ \E t \in Tasks, p \in PurchaseIds : CreateClaimRead(t, p)
    \/ \E t \in Tasks : CreateClaimExisting(t)
    \/ \E t \in Tasks : CreateClaimCreate(t)
    \/ \E t \in Tasks : CreateClaimPurchase(t)
    \/ \E t \in Tasks : CatchUpList(t)
    \/ \E t \in Tasks : CatchUpNext(t)
    \/ \E t \in Tasks : CatchUpExisting(t)
    \/ \E t \in Tasks : CatchUpCreate(t)
    \/ \E t \in Tasks : CatchUpMark(t)
    \/ \E t \in Tasks, p \in PurchaseIds, card \in CardIds : CreateAndFileRead(t, p, card)
    \/ \E t \in Tasks : CreateAndFileCreate(t)
    \/ EmailFilerStep
    \/ ServiceFilerStep
    \/ PatchStatusStep

SpecCreate == InitCreate /\ [][NextCreate]_vars

----------------------------------------------------------------------------
(* Filing, email version: one claim, the handlers that file it and the      *)
(* routes that change its status                                             *)

\* the claim as POST /claims leaves it, or as the catch-up sweep leaves it
\* when its filing attempt returned failure
RouteClaim ==
    [NoClaim EXCEPT !.status = "DRAFT", !.purchase = 1, !.card = 1,
                    !.originalPrice = 100, !.newPrice = 80, !.priceDifference = 20]
SweepClaim ==
    [RouteClaim EXCEPT !.status = "READY_TO_FILE", !.autoFiled = TRUE,
                       !.statusHistory = <<"DRAFT">>]

InitFile ==
    /\ now = 0
    /\ threshold = Unset
    /\ filerVersion = "email"
    /\ cards = OneCard(TheCard)
    /\ purchases = OnePurchase(DroppedPurchase)
    /\ priceHistory = [p \in PurchaseIds |-> IF p = 1 THEN <<100, 80>> ELSE <<>>]
    /\ task = [t \in Tasks |-> IdleTask]
    /\ \E first \in {RouteClaim, SweepClaim} :
        claims = [c \in ClaimIds |-> IF c = 1 THEN first ELSE NoClaim]
    /\ syncLogs = <<>>
    /\ parserVersion = "rules"
    /\ NoCall

SweepStep ==
    \/ \E t \in Tasks, c \in ClaimIds : AutoFileRouteCheck(t, c)
    \/ \E t \in Tasks : RetryList(t)
    \/ \E t \in Tasks : RetryNext(t)

NextFile ==
    \/ SweepStep
    \/ EmailFilerStep
    \/ \E t \in Tasks, c \in ClaimIds : MarkFiledRead(t, c)
    \/ \E t \in Tasks : MarkFiledUpdate(t)
    \/ \E t \in Tasks : MarkFiledPurchase(t)
    \/ \E t \in Tasks : MarkFiledNotify(t)
    \/ \E t \in Tasks, c \in ClaimIds : GenerateDocsRead(t, c)
    \/ \E t \in Tasks, ok \in BOOLEAN : GenerateDocsBuild(t, ok)
    \/ \E t \in Tasks : GenerateDocsUpdate(t)
    \/ \E t \in Tasks, c \in ClaimIds : DeleteClaimRead(t, c)
    \/ \E t \in Tasks : DeleteClaimDelete(t)
    \/ \E t \in Tasks : DeleteClaimPurchase(t)
    \/ PatchStatusStep

SpecFile == InitFile /\ [][NextFile]_vars

----------------------------------------------------------------------------
(* Filing, portal version: one claim, the handlers that file it and         *)
(* updateClaimStatus                                                         *)

IssuerValues == {"Chase", "Visa"}

InitPortal ==
    /\ now = 0
    /\ threshold = Unset
    /\ filerVersion = "portal"
    /\ \E issuer \in IssuerValues : cards = OneCard([TheCard EXCEPT !.issuer = issuer])
    /\ purchases = OnePurchase(DroppedPurchase)
    /\ priceHistory = [p \in PurchaseIds |-> IF p = 1 THEN <<100, 80>> ELSE <<>>]
    /\ task = [t \in Tasks |-> IdleTask]
    /\ \E first \in {RouteClaim, SweepClaim} :
        claims = [c \in ClaimIds |-> IF c = 1 THEN first ELSE NoClaim]
    /\ syncLogs = <<>>
    /\ parserVersion = "rules"
    /\ NoCall

NextPortal ==
    \/ SweepStep
    \/ PortalFilerStep
    \/ \E t \in Tasks, c \in ClaimIds, st \in StatusInputs : UpdateClaimStatusRead(t, c, st)
    \/ \E t \in Tasks : UpdateClaimStatusUpdate(t)

SpecPortal == InitPortal /\ [][NextPortal]_vars

----------------------------------------------------------------------------
(* Claims about claim creation *)

\* C1: for every purchase, at most one claim exists whose status is outside
\* {DENIED, EXPIRED}.
SingleActiveClaim ==
    \A p \in PurchaseIds : Cardinality(ActiveClaims(p)) <= 1

\* C5: every claim's priceDifference equals the smaller of originalPrice -
\* newPrice and its card's maxClaimAmount, and is greater than zero.
ClaimAmountCappedAndPositive ==
    \A c \in ClaimIds :
        ClaimExists(c) =>
            /\ claims[c].priceDifference =
                    Min2(claims[c].originalPrice - claims[c].newPrice,
                         cards[claims[c].card].maxClaimAmount)
            /\ claims[c].priceDifference > 0

FilerPcs ==
    {"ef_load", "ef_doc", "ef_gmail", "ef_sendgrid", "ef_update", "ef_purchase", "ef_catch",
     "pf_load", "pf_doc", "pf_steps", "pf_update", "pf_purchase",
     "cs_load", "cs_doc", "cs_send", "cs_failed", "cs_update", "cs_purchase", "pv_catch",
     "as_load", "as_doc", "as_send", "as_update", "as_purchase", "as_catch"}
LoadPcs == {"ef_load", "pf_load", "as_load"}

Submitted(attempts) ==
    \E i \in DOMAIN attempts :
        attempts[i] \in {"portal_ok", "gmail_ok", "sendgrid_ok", "smtp_ok"}

\* C8: when a filing attempt returns or throws without having submitted the
\* claim over any channel, the claim it was filing is READY_TO_FILE.
FailedFilingLeavesReadyToFile ==
    [][\A t \in Tasks :
        (/\ task[t].pc \in FilerPcs
         /\ task'[t].pc \notin FilerPcs
         /\ ~Submitted(task[t].tried)
         /\ task[t].cid \in ClaimIds
         /\ claims'[task[t].cid].status \notin {"NONE", "DELETED"}) =>
            claims'[task[t].cid].status = "READY_TO_FILE"]_vars

----------------------------------------------------------------------------
(* Claims about filing *)

\* C2: at most one submission (portal submission or claim email) is ever sent
\* for a claim.
AtMostOneSubmission ==
    \A c \in ClaimIds : claims[c].sent <= 1

\* C3: a filing attempt goes past its read of the claim only if the status it
\* read is DRAFT, READY_TO_FILE or PENDING.
FilerRejectsUnfileableStatus ==
    \A t \in Tasks :
        task[t].pc \in FilerPcs \ LoadPcs =>
            task[t].cstat \in {"DRAFT", "READY_TO_FILE", "PENDING"}

MailAttempts ==
    {"gmail_ok", "gmail_failed", "sendgrid_ok", "sendgrid_failed", "smtp_ok", "smtp_failed"}

\* C6: within one filing run no mail send follows a portal run that reported
\* success, and the SendGrid relay is attempted only after the Gmail send of
\* the same run has failed.
ChannelOrder ==
    \A t \in Tasks :
        LET tr == task[t].tried IN
        \A j \in DOMAIN tr :
            /\ tr[j] \in MailAttempts => \A i \in 1..(j - 1) : tr[i] # "portal_ok"
            /\ tr[j] \in {"sendgrid_ok", "sendgrid_failed"} =>
                    \E i \in 1..(j - 1) : tr[i] = "gmail_failed"

IsPrefix(s, r) == Len(s) <= Len(r) /\ \A i \in DOMAIN s : s[i] = r[i]

\* C9: every step leaves each claim's earlier statusHistory as a prefix of its
\* statusHistory afterwards.
StatusHistoryAppendOnly ==
    [][\A c \in ClaimIds :
        (ClaimExists(c) /\ ClaimExists(c)') =>
            IsPrefix(claims[c].statusHistory, claims'[c].statusHistory)]_vars

----------------------------------------------------------------------------
(* Email sync: the mailbox, the sync log and the two extraction strategies *)

\* what the parsers find in each message of the mailbox
Mail ==
    [m \in MessageIds |->
        [retailer |-> TRUE, price |-> 100, date |-> 0, hasUrl |-> TRUE,
         lastFour |-> IF m = 1 THEN 4242 ELSE NoLastFour]]

syncVars == <<now, threshold, claimVars>>

\* POST /email/sync: emailSyncLog.findFirst({status: 'IN_PROGRESS'}), 409 if any
SyncRouteCheck(t) ==
    /\ Idle(t)
    /\ Len(syncLogs) < MaxSyncs
    /\ \A i \in DOMAIN syncLogs : syncLogs[i] # "IN_PROGRESS"
    /\ task' = [task EXCEPT ![t] = [IdleTask EXCEPT !.op = "syncRoute", !.pc = "sr_create"]]
    /\ UNCHANGED <<cards, purchases, priceHistory, mailVars, syncVars>>

\* the route's emailSyncLog.create({status: 'IN_PROGRESS'}), then syncEmails
SyncCreateLog(t) ==
    /\ task[t].pc = "sr_create"
    /\ Len(syncLogs) < MaxSyncs
    /\ syncLogs' = Append(syncLogs, "IN_PROGRESS")
    /\ task' = [task EXCEPT ![t].pc = "sy_list", ![t].log = Len(syncLogs) + 1]
    /\ UNCHANGED <<cards, purchases, priceHistory, parserVersion, callVars, browserVars,
                   syncVars>>

\* the 4-hourly sweep: emailSyncLog.create({status: 'IN_PROGRESS'}) without
\* looking for a sync in progress, then syncEmails
SyncCronCreateLog(t) ==
    /\ Idle(t)
    /\ Len(syncLogs) < MaxSyncs
    /\ syncLogs' = Append(syncLogs, "IN_PROGRESS")
    /\ task' = [task EXCEPT ![t] =
            [IdleTask EXCEPT !.op = "syncCron", !.pc = "sy_list",
                             !.log = Len(syncLogs) + 1]]
    /\ UNCHANGED <<cards, purchases, priceHistory, parserVersion, callVars, browserVars,
                   syncVars>>

\* getGmailClient and gmail.users.messages.list
SyncList(t, ok) ==
    /\ task[t].pc = "sy_list"
    /\ task' = [task EXCEPT ![t].pc = IF ok THEN "sy_next" ELSE "sy_failed",
                            ![t].queue = IF ok THEN [m \in MessageIds |-> m] ELSE <<>>]
    /\ UNCHANGED <<cards, purchases, priceHistory, mailVars, syncVars>>

\* one iteration: gmail.users.messages.get and simpleParser, then the extractor
SyncNext(t, ok) ==
    /\ task[t].pc = "sy_next"
    /\ IF task[t].queue = <<>> THEN Goto(t, "sy_complete")
       ELSE LET m == Head(task[t].queue) IN
            task' = [task EXCEPT ![t].queue = Tail(@), ![t].mid = m, ![t].made = 0,
                         ![t].pc = IF ~ok THEN "sy_next"
                                   ELSE IF parserVersion = "ai" THEN "ai_existing"
                                   ELSE IF Mail[m].retailer THEN "ex_existing"
                                   ELSE "sy_next"]
    /\ UNCHANGED <<cards, purchases, priceHistory, mailVars, syncVars>>

\* emailSyncLog.update({status: 'COMPLETED'})
SyncComplete(t) ==
    /\ task[t].pc = "sy_complete"
    /\ syncLogs' = [syncLogs EXCEPT ![task[t].log] = "COMPLETED"]
    /\ Finish(t)
    /\ UNCHANGED <<cards, purchases, priceHistory, parserVersion, callVars, browserVars,
                   syncVars>>

\* a catch that rethrows without touching the log
SyncFailedMutant(t) ==
    /\ task[t].pc = "sy_failed"
    /\ Finish(t)
    /\ UNCHANGED <<cards, purchases, priceHistory, mailVars, syncVars>>

\* the catch of syncEmails: emailSyncLog.update({status: 'FAILED'}), rethrow
SyncFailed(t) ==
    /\ task[t].pc = "sy_failed"
    /\ syncLogs' = [syncLogs EXCEPT ![task[t].log] = "FAILED"]
    /\ Finish(t)
    /\ UNCHANGED <<cards, purchases, priceHistory, parserVersion, callVars, browserVars,
                   syncVars>>

PurchasesOfMessage(m) ==
    {p \in PurchaseIds : purchases[p].exists /\ purchases[p].sourceEmailId = m}

----------------------------------------------------------------------------
(* EmailParser.extractPurchaseFromEmail (rules) and matchCardToUser *)

\* purchase.findFirst({userId, sourceEmailId}): skip a message already linked
ExtractExisting(t) ==
    /\ task[t].pc = "ex_existing"
    /\ Goto(t, IF PurchasesOfMessage(task[t].mid) # {} THEN "sy_next"
               ELSE IF Mail[task[t].mid].lastFour = NoLastFour THEN "ex_create"
               ELSE "ex_cards")
    /\ UNCHANGED <<cards, purchases, priceHistory, mailVars, syncVars>>

\* creditCard.findMany and the look-up by lastFour
ExtractMatchCard(t) ==
    /\ task[t].pc = "ex_cards"
    /\ LET same == {c \in CardIds : cards[c].exists
                                    /\ cards[c].lastFour = Mail[task[t].mid].lastFour}
       IN task' = [task EXCEPT ![t] =
            IF same # {}
            THEN [@ EXCEPT !.card = CHOOSE c \in same : \A d \in same : c <= d,
                           !.pc = "ex_create"]
            ELSE [@ EXCEPT !.pc = "ex_newcard"]]
    /\ UNCHANGED <<cards, purchases, priceHistory, mailVars, syncVars>>

\* DEFAULT_PROTECTION_DAYS.default
DefaultProtectionDays == 90
\* the matcher's creditCard.create sets no maxClaimAmount: the column default
SchemaMaxClaimAmount == 250
FreeCardIds == {c \in CardIds : ~cards[c].exists /\ cards[c].issuer # "DELETED"}

\* creditCard.create of the auto-detected card and notification.create, both in
\* one try whose catch returns null
CardOutcomes == {"created", "createFailed", "noticeFailed"}

ExtractNewCard(t, outcome) ==
    /\ task[t].pc = "ex_newcard"
    /\ outcome # "createFailed" => FreeCardIds # {}
    /\ IF outcome # "createFailed"
       THEN LET c == CHOOSE c \in FreeCardIds : \A d \in FreeCardIds : c <= d IN
            /\ cards' = [cards EXCEPT ![c] =
                    [exists |-> TRUE, issuer |-> "Unknown",
                     lastFour |-> Mail[task[t].mid].lastFour,
                     protectionDays |-> DefaultProtectionDays,
                     maxClaimAmount |-> SchemaMaxClaimAmount,
                     autoClaimEnabled |-> TRUE]]
            /\ task' = [task EXCEPT ![t].card = IF outcome = "created" THEN c ELSE NoCard,
                                    ![t].pc = "ex_create"]
       ELSE /\ UNCHANGED cards
            /\ task' = [task EXCEPT ![t].card = NoCard, ![t].pc = "ex_create"]
    /\ UNCHANGED <<purchases, priceHistory, mailVars, syncVars>>

\* purchase.create({sourceType: 'EMAIL', sourceEmailId, status: 'MONITORING'})
ExtractCreate(t) ==
    /\ task[t].pc = "ex_create"
    /\ FreePurchaseIds # {}
    /\ LET p == NewPurchaseId
           m == Mail[task[t].mid]
           card == task[t].card
           ends == IF card # NoCard /\ cards[card].protectionDays # 0
                   THEN m.date + cards[card].protectionDays ELSE NoDate
       IN /\ purchases' = [purchases EXCEPT ![p] =
                [exists |-> TRUE, status |-> "MONITORING", purchasePrice |-> m.price,
                 currentPrice |-> m.price, lowestPrice |-> m.price, card |-> card,
                 purchaseDate |-> m.date, protectionEnds |-> ends, hasUrl |-> m.hasUrl,
                 sourceEmailId |-> task[t].mid]]
          /\ task' = [task EXCEPT ![t].pid = p, ![t].pc = "ex_history"]
    /\ UNCHANGED <<cards, priceHistory, mailVars, syncVars>>

\* priceHistory.create, then notification.create
ExtractHistory(t) ==
    /\ task[t].pc = "ex_history"
    /\ priceHistory' = [priceHistory EXCEPT ![task[t].pid] = Append(@, Mail[task[t].mid].price)]
    /\ task' = [task EXCEPT ![t].pc = "sy_next", ![t].pid = 0, ![t].card = NoCard]
    /\ UNCHANGED <<cards, purchases, mailVars, syncVars>>

----------------------------------------------------------------------------
(* EmailParser.extractPurchaseWithAI *)

AiItemCounts == {0, 1, 2}     \* items in the model's answer; 0: not a purchase

\* purchase.findFirst({userId, sourceEmailId}): skip a message already linked
AiExisting(t) ==
    /\ task[t].pc = "ai_existing"
    /\ Goto(t, IF PurchasesOfMessage(task[t].mid) # {} THEN "sy_next" ELSE "ai_parse")
    /\ UNCHANGED <<cards, purchases, priceHistory, mailVars, syncVars>>

\* parseEmailWithAI
AiParse(t, n) ==
    /\ task[t].pc = "ai_parse"
    /\ task' = [task EXCEPT ![t].items = n, ![t].made = 0,
                            ![t].pc = IF n = 0 THEN "sy_next" ELSE "ai_create"]
    /\ UNCHANGED <<cards, purchases, priceHistory, mailVars, syncVars>>

\* purchase.create for the next item of the answer
AiCreate(t) ==
    /\ task[t].pc = "ai_create"
    /\ FreePurchaseIds # {}
    /\ LET p == NewPurchaseId
           m == Mail[task[t].mid]
       IN /\ purchases' = [purchases EXCEPT ![p] =
                [exists |-> TRUE, status |-> "MONITORING", purchasePrice |-> m.price,
                 currentPrice |-> m.price, lowestPrice |-> m.price, card |-> NoCard,
                 purchaseDate |-> m.date, protectionEnds |-> NoDate, hasUrl |-> TRUE,
                 sourceEmailId |-> task[t].mid]]
          /\ task' = [task EXCEPT ![t].pid = p, ![t].pc = "ai_history"]
    /\ UNCHANGED <<cards, priceHistory, mailVars, syncVars>>

\* priceHistory.create, notification.create, purchases.push, next item
AiHistory(t) ==
    /\ task[t].pc = "ai_history"
    /\ priceHistory' = [priceHistory EXCEPT ![task[t].pid] = Append(@, Mail[task[t].mid].price)]
    /\ task' = [task EXCEPT ![t].pid = 0, ![t].made = @ + 1,
                            ![t].pc = IF task[t].made + 1 < task[t].items
                                      THEN "ai_create" ELSE "sy_next"]
    /\ UNCHANGED <<cards, purchases, mailVars, syncVars>>

----------------------------------------------------------------------------
(* Email sync: a manual sync and the scheduled sync over the same mailbox *)

InitExtract ==
    /\ now = 0
    /\ threshold = Unset
    /\ cards = OneCard(TheCard)
    /\ purchases = [p \in PurchaseIds |-> NoPurchase]
    /\ priceHistory = [p \in PurchaseIds |-> <<>>]
    /\ task = [t \in Tasks |-> IdleTask]
    /\ claims = [c \in ClaimIds |-> NoClaim]
    /\ filerVersion = "email"
    /\ syncLogs = <<>>
    /\ parserVersion \in {"rules", "ai"}
    /\ NoCall

NextExtract ==
    \/ \E t \in Tasks : SyncRouteCheck(t)
    \/ \E t \in Tasks : SyncCreateLog(t)
    \/ \E t \in Tasks : SyncCronCreateLog(t)
    \/ \E t \in Tasks, ok \in BOOLEAN : SyncList(t, ok)
    \/ \E t \in Tasks, ok \in BOOLEAN : SyncNext(t, ok)
    \/ \E t \in Tasks : SyncComplete(t)
    \/ \E t \in Tasks : SyncFailed(t)
    \/ \E t \in Tasks : ExtractExisting(t)
    \/ \E t \in Tasks : ExtractMatchCard(t)
    \/ \E t \in Tasks, outcome \in CardOutcomes : ExtractNewCard(t, outcome)
    \/ \E t \in Tasks : ExtractCreate(t)
    \/ \E t \in Tasks : ExtractHistory(t)
    \/ \E t \in Tasks : AiExisting(t)
    \/ \E t \in Tasks, n \in AiItemCounts : AiParse(t, n)
    \/ \E t \in Tasks : AiCreate(t)
    \/ \E t \in Tasks : AiHistory(t)

SpecExtract == InitExtract /\ [][NextExtract]_vars

\* C7: a purchase is created for a message only by a processing of it that
\* found no purchase linked to that message: the purchases already linked to
\* the message are the ones this very processing has created.
NoPurchaseOnReprocessing ==
    [][\A t \in Tasks :
        (task[t].pc \in {"ex_create", "ai_create"} /\ task'[t].pc # task[t].pc) =>
            Cardinality(PurchasesOfMessage(task[t].mid)) = task[t].made]_vars

----------------------------------------------------------------------------
(* Claim creation while the clock runs past the end of the protection window *)

InitWindow ==
    /\ now = 0
    /\ threshold = Unset
    /\ filerVersion = "email"
    /\ cards = OneCard(TheCard)
    /\ purchases = OnePurchase(DroppedPurchase)
    /\ priceHistory = [p \in PurchaseIds |-> IF p = 1 THEN <<100, 80>> ELSE <<>>]
    /\ task = [t \in Tasks |-> IdleTask]
    /\ claims = [c \in ClaimIds |-> NoClaim]
    /\ syncLogs = <<>>
    /\ parserVersion = "rules"
    /\ NoCall

NextWindow ==
    \/ Tick
    \/ \E t \in Tasks, p \in PurchaseIds : CreateClaimRead(t, p)
    \/ \E t \in Tasks : CreateClaimExisting(t)
    \/ \E t \in Tasks : CreateClaimCreate(t)
    \/ \E t \in Tasks : CreateClaimPurchase(t)
    \/ \E t \in Tasks : CatchUpList(t)
    \/ \E t \in Tasks : CatchUpNext(t)
    \/ \E t \in Tasks : CatchUpExisting(t)
    \/ \E t \in Tasks : CatchUpCreate(t)
    \/ \E t \in Tasks : CatchUpMark(t)
    \/ \E t \in Tasks, p \in PurchaseIds, card \in CardIds : CreateAndFileRead(t, p, card)
    \/ \E t \in Tasks : CreateAndFileCreate(t)
    \/ EmailFilerStep
    \/ ServiceFilerStep

SpecWindow == InitWindow /\ [][NextWindow]_vars

\* C11: whenever a claim row is created, the protection window of its
\* purchase has not lapsed: protectionEnds is not before the current time.
NoClaimAfterWindow ==
    [][\A c \in ClaimIds :
        (claims[c].status = "NONE" /\ claims'[c].status # "NONE") =>
            LET ends == purchases[claims'[c].purchase].protectionEnds
            IN ends = NoDate \/ ends >= now]_vars

----------------------------------------------------------------------------
(* Claims about the life cycle of a claim *)

TerminalClaimStatuses == {"DENIED", "EXPIRED", "MONEY_RECEIVED"}

\* C12: once a claim's status is DENIED, EXPIRED or MONEY_RECEIVED, no step
\* of any handler changes it.
TerminalClaimImmutable ==
    [][\A c \in ClaimIds :
        claims[c].status \in TerminalClaimStatuses =>
            claims'[c].status = claims[c].status]_vars

----------------------------------------------------------------------------
(* Claims about the life cycle of a purchase *)

\* the position of a status in the chain MONITORING -> PRICE_DROP_DETECTED ->
\* CLAIM_ELIGIBLE -> CLAIM_FILED -> {CLAIM_APPROVED | CLAIM_DENIED}
ChainRank(st) ==
    CASE st = "MONITORING" -> 0
      [] st = "PRICE_DROP_DETECTED" -> 1
      [] st = "CLAIM_ELIGIBLE" -> 2
      [] st = "CLAIM_FILED" -> 3
      [] OTHER -> 4

TerminalPurchaseStatuses == {"CLAIM_APPROVED", "CLAIM_DENIED", "EXPIRED"}

\* C13: a step never moves a purchase to an earlier status of the chain, and
\* never changes the status of a purchase that is CLAIM_APPROVED, CLAIM_DENIED
\* or EXPIRED.
PurchaseStatusOnlyForward ==
    [][\A p \in PurchaseIds :
        (purchases[p].exists /\ purchases'[p].status # purchases[p].status) =>
            /\ purchases[p].status \notin TerminalPurchaseStatuses
            /\ \/ purchases'[p].status = "EXPIRED"
               \/ ChainRank(purchases'[p].status) > ChainRank(purchases[p].status)]_vars

----------------------------------------------------------------------------
(* Filing while the price monitor and the expiry sweep run on the purchase *)

\* the daily sweep: purchase.updateMany({protectionEnds < now, status in
\* MONITORING / PRICE_DROP_DETECTED / CLAIM_ELIGIBLE}, {status: 'EXPIRED'})
Expirable(p) ==
    /\ purchases[p].exists
    /\ purchases[p].protectionEnds # NoDate
    /\ purchases[p].protectionEnds < now
    /\ purchases[p].status \in {"MONITORING", "PRICE_DROP_DETECTED", "CLAIM_ELIGIBLE"}

ExpirePurchases ==
    /\ \E p \in PurchaseIds : Expirable(p)
    /\ purchases' = [p \in PurchaseIds |->
            IF Expirable(p) THEN [purchases[p] EXCEPT !.status = "EXPIRED"]
            ELSE purchases[p]]
    /\ UNCHANGED <<now, threshold, cards, priceHistory, task, claimVars, mailVars>>

InitFiled ==
    /\ now = 0
    /\ threshold = Unset
    /\ filerVersion = "email"
    /\ cards = OneCard(TheCard)
    /\ purchases = OnePurchase(DroppedPurchase)
    /\ priceHistory = [p \in PurchaseIds |-> IF p = 1 THEN <<100, 80>> ELSE <<>>]
    /\ task = [t \in Tasks |-> IdleTask]
    /\ claims = [c \in ClaimIds |-> IF c = 1 THEN RouteClaim ELSE NoClaim]
    /\ syncLogs = <<>>
    /\ parserVersion = "rules"
    /\ NoCall

NextFiled ==
    \/ Tick
    \/ ExpirePurchases
    \/ \E t \in Tasks, p \in PurchaseIds : CheckPriceStart(t, p)
    \/ \E t \in Tasks : CheckPriceRead(t)
    \/ \E t \in Tasks, price \in PriceValues \cup {NoPrice} : CheckPriceScrape(t, price)
    \/ \E t \in Tasks : CheckPriceRecord(t)
    \/ \E t \in Tasks : CheckPriceNotify(t)
    \/ \E t \in Tasks : CheckPriceUpdate(t)
    \/ \E t \in Tasks, c \in ClaimIds : MarkFiledRead(t, c)
    \/ \E t \in Tasks : MarkFiledUpdate(t)
    \/ \E t \in Tasks : MarkFiledPurchase(t)
    \/ \E t \in Tasks : MarkFiledNotify(t)
    \/ \E t \in Tasks, c \in ClaimIds : AutoFileRouteCheck(t, c)
    \/ EmailFilerStep

SpecFiled == InitFiled /\ [][NextFiled]_vars

\* C14: when the mark-as-filed route or the auto-filer completes a filing
\* that made the claim FILED or EMAIL_SENT, the owning purchase's status is
\* CLAIM_FILED.
FilingAdvancesPurchase ==
    [][\A t \in Tasks :
        (task[t].pc \in {"mf_notify", "ef_purchase"} /\ task'[t].pc # task[t].pc) =>
            purchases'[task[t].pid].status = "CLAIM_FILED"]_vars

----------------------------------------------------------------------------
(* cardDetector.luhnCheck *)

\* a card number is a string: a sequence of characters, each a digit 0..9 or
\* NonDigit, which stands for any character that \D matches
NonDigit == 10
Chars == 0..9 \cup {NonDigit}
MaxCardLen == 3

RECURSIVE Strings(_)
Strings(n) ==
    IF n = 0 THEN {<<>>}
    ELSE LET shorter == Strings(n - 1)
         IN shorter \cup {Append(s, ch) : s \in {x \in shorter : Len(x) = n - 1}, ch \in Chars}

ValidVisa == <<4,1,1,1, 1,1,1,1, 1,1,1,1, 1,1,1,1>>
InvalidVisa == <<4,1,1,1, 1,1,1,1, 1,1,1,1, 1,1,1,2>>
CardNumbers == Strings(MaxCardLen) \cup {ValidVisa, InvalidVisa}

\* cardNumber.replace(/\D/g, '')
Clean(cardNumber) == SelectSeq(cardNumber, LAMBDA ch : ch \in 0..9)

\* the body of the loop: the digit's contribution to sum
LuhnDigitMutant(digit, isEven) == IF isEven THEN digit * 2 ELSE digit
LuhnDigit(digit, isEven) ==
    IF isEven
    THEN IF digit * 2 > 9 THEN digit * 2 - 9 ELSE digit * 2
    ELSE digit

\* for (let i = clean.length - 1; i >= 0; i--), with i counted from 1 here
RECURSIVE LuhnLoop(_, _, _, _)
LuhnLoop(clean, i, sum, isEven) ==
    IF i < 1 THEN sum
    ELSE LuhnLoop(clean, i - 1, sum + LuhnDigit(clean[i], isEven), ~isEven)

luhnCheck(cardNumber) ==
    LET clean == Clean(cardNumber)
    IN IF clean = <<>> THEN FALSE
       ELSE LuhnLoop(clean, Len(clean), 0, FALSE) % 10 = 0

\* one call of luhnCheck
LuhnCall ==
    /\ ret = <<>>
    /\ ret' = <<luhnCheck(arg)>>
    /\ UNCHANGED <<now, threshold, cards, purchases, priceHistory, task, claimVars,
                   syncLogs, parserVersion, arg, browserVars>>

InitLuhn ==
    /\ now = 0
    /\ threshold = Unset
    /\ cards = [c \in CardIds |-> NoCardRow]
    /\ purchases = [p \in PurchaseIds |-> NoPurchase]
    /\ priceHistory = [p \in PurchaseIds |-> <<>>]
    /\ task = [t \in Tasks |-> IdleTask]
    /\ claims = [c \in ClaimIds |-> NoClaim]
    /\ filerVersion = "email"
    /\ syncLogs = <<>>
    /\ parserVersion = "rules"
    /\ arg \in CardNumbers
    /\ NoBrowser
    /\ ret = <<>>

NextLuhn == LuhnCall

SpecLuhn == InitLuhn /\ [][NextLuhn]_vars

\* the standard mod-10 checksum of a digit string: the digits in even
\* positions counted from the right are doubled and their decimal digits
\* added, the others are added as they are
DigitSum(n) == (n \div 10) + (n % 10)
RECURSIVE ChecksumFrom(_, _)
ChecksumFrom(digits, k) ==
    IF k > Len(digits) THEN 0
    ELSE LET d == digits[Len(digits) - k + 1]
         IN (IF k % 2 = 0 THEN DigitSum(2 * d) ELSE d) + ChecksumFrom(digits, k + 1)
Mod10Checksum(digits) == ChecksumFrom(digits, 1) % 10

IsDigitString(s) == s # <<>> /\ \A i \in DOMAIN s : s[i] \in 0..9

\* C15: for a string of digits, luhnCheck returns true exactly when the
\* standard mod-10 checksum of the digits is 0; it returns true for
\* 4111111111111111 and false for 4111111111111112.
LuhnCheckIsMod10 ==
    ret # <<>> =>
        /\ IsDigitString(arg) => (ret[1] <=> Mod10Checksum(arg) = 0)
        /\ arg = ValidVisa => ret[1] = TRUE
        /\ arg = InvalidVisa => ret[1] = FALSE

\* C15 witness: luhnCheck has accepted 4111111111111111.
LuhnAcceptsValidVisa == arg = ValidVisa /\ ret = <<TRUE>>

----------------------------------------------------------------------------
(* The card routes: POST /cards, POST /cards/quick-add, PATCH and DELETE     *)
(* /cards/:id                                                                *)

cardEnv == <<now, threshold, purchases, priceHistory, claimVars, mailVars>>

CardIssuers == {"Visa", "Chase"}
LastFours == {1111, 2222}

\* protectionDays = 60 when the request gives none
DefaultCardProtectionDays == 60

\* where: {userId, lastFour, issuer}
SameCard(issuer, lastFour) ==
    {c \in CardIds : cards[c].exists /\ cards[c].issuer = issuer
                     /\ cards[c].lastFour = lastFour}

\* POST /cards: creditCard.findFirst of a duplicate, 409 when there is one
AddCardCheck(t, issuer, lastFour) ==
    /\ Idle(t)
    /\ IF SameCard(issuer, lastFour) # {} THEN UNCHANGED task
       ELSE task' = [task EXCEPT ![t] =
                [IdleTask EXCEPT !.op = "addCard", !.pc = "ac_create",
                                 !.issuer = issuer, !.lastFour = lastFour]]
    /\ UNCHANGED <<cards, cardEnv>>

\* creditCard.create; autoClaimEnabled is not in the request and takes the
\* column's default
AddCardCreate(t, auto) ==
    /\ task[t].pc = "ac_create"
    /\ FreeCardIds # {}
    /\ LET c == CHOOSE c \in FreeCardIds : \A d \in FreeCardIds : c <= d IN
       cards' = [cards EXCEPT ![c] =
            [exists |-> TRUE, issuer |-> task[t].issuer, lastFour |-> task[t].lastFour,
             protectionDays |-> DefaultCardProtectionDays,
             maxClaimAmount |-> DefaultMaxClaimAmount, autoClaimEnabled |-> auto]]
    /\ Finish(t)
    /\ UNCHANGED cardEnv

\* POST /cards/quick-add: detectCardIssuer gave issuer and lastFour; findFirst
QuickAddCheck(t, issuer, lastFour) ==
    /\ Idle(t)
    /\ IF SameCard(issuer, lastFour) # {} THEN UNCHANGED task
       ELSE task' = [task EXCEPT ![t] =
                [IdleTask EXCEPT !.op = "quickAdd", !.pc = "qa_create",
                                 !.issuer = issuer, !.lastFour = lastFour]]
    /\ UNCHANGED <<cards, cardEnv>>

\* creditCard.create({autoClaimEnabled: false})
QuickAddCreate(t) ==
    /\ task[t].pc = "qa_create"
    /\ FreeCardIds # {}
    /\ LET c == CHOOSE c \in FreeCardIds : \A d \in FreeCardIds : c <= d IN
       cards' = [cards EXCEPT ![c] =
            [exists |-> TRUE, issuer |-> task[t].issuer, lastFour |-> task[t].lastFour,
             protectionDays |-> DefaultCardProtectionDays,
             maxClaimAmount |-> DefaultMaxClaimAmount, autoClaimEnabled |-> FALSE]]
    /\ Finish(t)
    /\ UNCHANGED cardEnv

\* PATCH /cards/:id: the validators name neither issuer nor lastFour, and the
\* whole req.body goes to the update; "NONE" / NoLastFour / NoDays: field not in
\* the body
PatchCardRead(t, c, issuer, lastFour, days) ==
    /\ Idle(t)
    /\ cards[c].exists
    /\ task' = [task EXCEPT ![t] =
            [IdleTask EXCEPT !.op = "patchCard", !.pc = "pc_update", !.card = c,
                             !.issuer = issuer, !.lastFour = lastFour, !.days = days]]
    /\ UNCHANGED <<cards, cardEnv>>

\* creditCard.update({data: req.body}); throws when the row is gone
PatchCardUpdate(t) ==
    /\ task[t].pc = "pc_update"
    /\ LET c == task[t].card IN
       IF cards[c].exists
       THEN cards' = [cards EXCEPT ![c] =
                [@ EXCEPT !.issuer = IF task[t].issuer = "NONE" THEN @ ELSE task[t].issuer,
                          !.lastFour = IF task[t].lastFour = NoLastFour THEN @
                                       ELSE task[t].lastFour,
                          !.protectionDays = IF task[t].days = NoDays THEN @
                                             ELSE task[t].days]]
       ELSE UNCHANGED cards
    /\ Finish(t)
    /\ UNCHANGED cardEnv

\* DELETE /cards/:id: creditCard.findFirst
DeleteCardRead(t, c) ==
    /\ Idle(t)
    /\ cards[c].exists
    /\ task' = [task EXCEPT ![t] =
            [IdleTask EXCEPT !.op = "deleteCard", !.pc = "dc_count", !.card = c]]
    /\ UNCHANGED <<cards, cardEnv>>

\* claim.count({creditCardId}): 400 when the card has claims
DeleteCardCount(t) ==
    /\ task[t].pc = "dc_count"
    /\ IF \E k \in ClaimIds : ClaimExists(k) /\ claims[k].card = task[t].card
       THEN Finish(t) ELSE Goto(t, "dc_delete")
    /\ UNCHANGED <<cards, cardEnv>>

\* creditCard.delete
DeleteCardDelete(t) ==
    /\ task[t].pc = "dc_delete"
    /\ LET c == task[t].card IN
       IF cards[c].exists
       THEN cards' = [cards EXCEPT ![c] = [NoCardRow EXCEPT !.issuer = "DELETED"]]
       ELSE UNCHANGED cards
    /\ Finish(t)
    /\ UNCHANGED cardEnv

InitCards ==
    /\ now = 0
    /\ threshold = Unset
    /\ filerVersion = "email"
    /\ cards = OneCard(TheCard)
    /\ purchases = OnePurchase(DroppedPurchase)
    /\ priceHistory = [p \in PurchaseIds |-> IF p = 1 THEN <<100, 80>> ELSE <<>>]
    /\ task = [t \in Tasks |-> IdleTask]
    /\ claims = [c \in ClaimIds |-> NoClaim]
    /\ syncLogs = <<>>
    /\ parserVersion = "rules"
    /\ NoCall

NextCards ==
    \/ \E t \in Tasks, issuer \in CardIssuers, lastFour \in LastFours :
            AddCardCheck(t, issuer, lastFour)
    \/ \E t \in Tasks, auto \in BOOLEAN : AddCardCreate(t, auto)
    \/ \E t \in Tasks, issuer \in CardIssuers, lastFour \in LastFours :
            QuickAddCheck(t, issuer, lastFour)
    \/ \E t \in Tasks : QuickAddCreate(t)
    \/ \E t \in Tasks, c \in CardIds, issuer \in CardIssuers \cup {"NONE"},
          lastFour \in LastFours \cup {NoLastFour} :
            PatchCardRead(t, c, issuer, lastFour, NoDays)
    \/ \E t \in Tasks : PatchCardUpdate(t)
    \/ \E t \in Tasks, c \in CardIds : DeleteCardRead(t, c)
    \/ \E t \in Tasks : DeleteCardCount(t)
    \/ \E t \in Tasks : DeleteCardDelete(t)
    \/ \E t \in Tasks, p \in PurchaseIds : CreateClaimRead(t, p)
    \/ \E t \in Tasks : CreateClaimExisting(t)
    \/ \E t \in Tasks : CreateClaimCreate(t)
    \/ \E t \in Tasks : CreateClaimPurchase(t)

SpecCards == InitCards /\ [][NextCards]_vars

\* C16: no two cards of the user have the same last four digits and the
\* same issuer.
CardsUniquePerUser ==
    \A c, d \in CardIds :
        (c # d /\ cards[c].exists /\ cards[d].exists) =>
            ~(cards[c].lastFour = cards[d].lastFour /\ cards[c].issuer = cards[d].issuer)

\* C17: a step that deletes a card leaves no claim that references it.
CardNotDeletedWhileReferenced ==
    [][\A c \in CardIds :
        (cards[c].exists /\ ~cards'[c].exists) =>
            ~\E k \in ClaimIds :
                claims'[k].status \notin {"NONE", "DELETED"} /\ claims'[k].card = c]_vars

----------------------------------------------------------------------------
(* Claims about what the user is told *)

AllFailed(attempts) == attempts # <<>> /\ ~Submitted(attempts)

\* C18: a filing attempt in which every channel it tried has failed does not
\* end without having created a notification for the user.
TotalFailureNotifies ==
    [][\A t \in Tasks :
        (/\ task[t].pc \in FilerPcs
         /\ task'[t].pc \notin FilerPcs
         /\ AllFailed(task[t].tried)) =>
            (task[t].notified > 0 \/ task'[t].notified > 0)]_vars

\* the purchase routes and the price checks alone: currentPrice is written only
\* by POST /purchases and by checkPriceForPurchase
NextChecks ==
    \/ Tick
    \/ \E t \in Tasks, price \in PurchasePrices, url \in BOOLEAN,
          card \in CardIds \cup {NoCard} :
            AddPurchaseCreate(t, price, now, url, card)
    \/ \E t \in Tasks : AddPurchaseHistory(t)
    \/ \E t \in Tasks, p \in PurchaseIds : CheckPriceStart(t, p)
    \/ \E t \in Tasks : CheckPriceRead(t)
    \/ \E t \in Tasks, price \in PriceValues \cup {NoPrice} : CheckPriceScrape(t, price)
    \/ \E t \in Tasks : CheckPriceRecord(t)
    \/ \E t \in Tasks : CheckPriceNotify(t)
    \/ \E t \in Tasks : CheckPriceUpdate(t)

SpecChecks == InitPrice /\ [][NextChecks]_vars

\* C19: a price check creates at most one price-drop notification, and none
\* when the price it observed is the price the previous check recorded on the
\* purchase.
NoRepeatedDropNotification ==
    [][\A t \in Tasks :
        /\ task'[t].notified <= 1
        /\ (task[t].pc = "cp_notify" /\ task'[t].notified > task[t].notified) =>
                task[t].price # purchases[task[t].pid].currentPrice]_vars

\* C20: the retry sweep hands a claim to the filer only if, at that moment,
\* the claim is auto-filed, DRAFT or READY_TO_FILE and less than 7 days old,
\* its card has auto-claim enabled and its purchase's window has not lapsed.
RetryOnlyWhileDue ==
    [][\A t \in Tasks :
        (task[t].pc = "rt_next" /\ task'[t].pc \notin {"rt_next", "idle"}) =>
            LET c == task'[t].cid IN
            /\ StuckClaim(c)
            /\ cards[claims[c].card].autoClaimEnabled
            /\ LET ends == purchases[claims[c].purchase].protectionEnds
               IN ends = NoDate \/ ends >= now]_vars

----------------------------------------------------------------------------
(* Claims about the portal run and the retry sweep *)

\* C21: a portal run in which a click, select, fill or upload step located no
\* usable element does not click submit, does not go on to mark the claim
\* FILED via the portal, and falls through to the mail channel.
PartialFormNotSubmitted ==
    [][\A t \in Tasks :
        (task[t].pc = "pf_steps" /\ task'[t].pc # "pf_steps" /\ task'[t].missing) =>
            /\ claims'[task[t].cid].sent = claims[task[t].cid].sent
            /\ task'[t].pc = "cs_load"]_vars

\* The retry cron with the auto-file route and the email filer.  The cron
\* fires on its schedule and every handler that has started runs on.
NextRetry ==
    \/ SweepStep
    \/ EmailFilerStep

FairRetry ==
    /\ SF_vars(\E t \in Tasks : RetryList(t))
    /\ \A t \in Tasks : WF_vars(RetryNext(t))
    /\ \A t \in Tasks : WF_vars(EmailFilerStep /\ task'[t] # task[t])

SpecRetry == InitFile /\ [][NextRetry]_vars /\ FairRetry

\* the claim's last filing attempt failed and left it unsent
FailedUnsent(c) ==
    /\ ClaimExists(c)
    /\ claims[c].status = "READY_TO_FILE"
    /\ claims[c].statusHistory # <<>>
    /\ claims[c].statusHistory[Len(claims[c].statusHistory)] = "ERROR"

RetryDue(c) ==
    /\ claims[c].createdAt >= now - RetryWindowDays
    /\ cards[claims[c].card].autoClaimEnabled
    /\ LET ends == purchases[claims[c].purchase].protectionEnds
       IN ends = NoDate \/ ends >= now

Retrying(c) ==
    \E t \in Tasks : task[t].op = "retry" /\ task[t].cid = c /\ task[t].pc \in FilerPcs

\* the claim has reached a bound of the model, after which no filer runs on it
AtBound(c) ==
    Len(claims[c].statusHistory) >= MaxHistory \/ claims[c].sent >= MaxSends

\* C22: a claim whose filing attempt failed and left it unsent is eventually
\* handed to the filer by the retry sweep, unless it stops being unsent or due.
FailedClaimEventuallyRetried ==
    \A c \in ClaimIds :
        FailedUnsent(c) ~> (Retrying(c) \/ ~FailedUnsent(c) \/ ~RetryDue(c) \/ AtBound(c))

\* the same, asked only of the claims that carry autoFiled
MarkedClaimEventuallyRetried ==
    \A c \in ClaimIds :
        (FailedUnsent(c) /\ claims[c].autoFiled)
            ~> (Retrying(c) \/ ~FailedUnsent(c) \/ ~RetryDue(c) \/ AtBound(c))

----------------------------------------------------------------------------
(* Claims about the status history *)

RECURSIVE LastNonError(_)
LastNonError(h) ==
    IF h = <<>> THEN "NONE"
    ELSE IF h[Len(h)] # "ERROR" THEN h[Len(h)]
    ELSE LastNonError(SubSeq(h, 1, Len(h) - 1))

\* C23: every change of a claim's status appends one entry to its
\* statusHistory, after which the latest entry that is not an error entry
\* names the claim's status.
StatusChangeAppendsHistory ==
    [][\A c \in ClaimIds :
        (/\ ClaimExists(c)
         /\ claims'[c].status \notin {"NONE", "DELETED"}
         /\ claims'[c].status # claims[c].status) =>
            /\ IsPrefix(claims[c].statusHistory, claims'[c].statusHistory)
            /\ Len(claims'[c].statusHistory) = Len(claims[c].statusHistory) + 1
            /\ LastNonError(claims'[c].statusHistory) = claims'[c].status]_vars

\* C24: a claim whose status is EMAIL_SENT or FILED is not moved to DRAFT or
\* READY_TO_FILE by any operation.
FiledClaimStaysFiled ==
    [][\A c \in ClaimIds :
        claims[c].status \in {"EMAIL_SENT", "FILED"} =>
            claims'[c].status \notin {"DRAFT", "READY_TO_FILE"}]_vars

----------------------------------------------------------------------------
(* The card matcher under two syncs of the same mailbox *)

\* the user has no card yet, or has the card the message names
InitMatch ==
    /\ now = 0
    /\ threshold = Unset
    /\ \E had \in BOOLEAN :
        cards = IF had THEN OneCard([TheCard EXCEPT !.lastFour = Mail[1].lastFour])
                ELSE [c \in CardIds |-> NoCardRow]
    /\ purchases = [p \in PurchaseIds |-> NoPurchase]
    /\ priceHistory = [p \in PurchaseIds |-> <<>>]
    /\ task = [t \in Tasks |-> IdleTask]
    /\ claims = [c \in ClaimIds |-> NoClaim]
    /\ filerVersion = "email"
    /\ syncLogs = <<>>
    /\ parserVersion = "rules"
    /\ NoCall

NextMatch ==
    \/ \E t \in Tasks : SyncRouteCheck(t)
    \/ \E t \in Tasks : SyncCreateLog(t)
    \/ \E t \in Tasks : SyncCronCreateLog(t)
    \/ \E t \in Tasks, ok \in BOOLEAN : SyncList(t, ok)
    \/ \E t \in Tasks, ok \in BOOLEAN : SyncNext(t, ok)
    \/ \E t \in Tasks : SyncComplete(t)
    \/ \E t \in Tasks : SyncFailed(t)
    \/ \E t \in Tasks : ExtractExisting(t)
    \/ \E t \in Tasks : ExtractMatchCard(t)
    \/ \E t \in Tasks, outcome \in CardOutcomes : ExtractNewCard(t, outcome)
    \/ \E t \in Tasks : ExtractCreate(t)
    \/ \E t \in Tasks : ExtractHistory(t)

SpecMatch == InitMatch /\ [][NextMatch]_vars

CardsWith(lastFour) == {c \in CardIds : cards[c].exists /\ cards[c].lastFour = lastFour}

\* C25: the matcher leaves every existing card as it is, and provisions a card
\* for a last-4 only when the user has no card with that last-4, with
\* auto-claim enabled.
MatcherProvisionsOnce ==
    [][\A c \in CardIds :
        /\ cards[c].exists => cards'[c] = cards[c]
        /\ (~cards[c].exists /\ cards'[c].exists) =>
                /\ CardsWith(cards'[c].lastFour) = {}
                /\ cards'[c].autoClaimEnabled]_vars

\* C26: the matcher's auto-provisioning never raises: extraction goes on to
\* create the purchase; and it returns no instrument exactly when it has
\* persisted none.
NoCardMeansNonePersisted ==
    [][\A t \in Tasks :
        (task[t].pc = "ex_newcard" /\ task'[t].pc # "ex_newcard") =>
            /\ task'[t].pc = "ex_create"
            /\ task'[t].card = NoCard <=> cards' = cards]_vars

\* C27: a card the matcher provisions from a hint that names no network or
\* issuer has issuer "Unknown", 60 protection days, a maximum claim amount of
\* 250 and auto-claim enabled.
UnknownCardDefaults ==
    [][\A c \in CardIds :
        (~cards[c].exists /\ cards'[c].exists /\ cards'[c].issuer = "Unknown") =>
            /\ cards'[c].protectionDays = 60
            /\ cards'[c].maxClaimAmount = 250
            /\ cards'[c].autoClaimEnabled]_vars

----------------------------------------------------------------------------
(* Claim creation for a purchase whose price has come back up from its lowest *)

ReboundPrices == {80, 95}

InitLowest ==
    /\ now = 0
    /\ threshold = Unset
    /\ filerVersion = "email"
    /\ cards = OneCard(TheCard)
    /\ \E current \in ReboundPrices :
        /\ purchases = OnePurchase([DroppedPurchase EXCEPT !.currentPrice = current])
        /\ priceHistory = [p \in PurchaseIds |->
                            IF p # 1 THEN <<>>
                            ELSE IF current = 80 THEN <<100, 80>> ELSE <<100, 80, current>>]
    /\ task = [t \in Tasks |-> IdleTask]
    /\ claims = [c \in ClaimIds |-> NoClaim]
    /\ syncLogs = <<>>
    /\ parserVersion = "rules"
    /\ NoCall

SpecLowest == InitLowest /\ [][NextWindow]_vars

\* C28: a claim is created with newPrice equal to its purchase's lowestPrice
\* at that moment and with priceDifference equal to the smaller of
\* purchasePrice - lowestPrice and the card's maxClaimAmount.
ClaimFromLowestPrice ==
    [][\A c \in ClaimIds :
        (claims[c].status = "NONE" /\ claims'[c].status # "NONE") =>
            LET p == purchases[claims'[c].purchase] IN
            /\ claims'[c].newPrice = p.lowestPrice
            /\ claims'[c].priceDifference =
                    Min2(p.purchasePrice - p.lowestPrice,
                         cards[claims'[c].card].maxClaimAmount)]_vars

----------------------------------------------------------------------------
(* priceMonitor.checkAllEligiblePurchases: the batch sweep *)

SweepEligible(p) ==
    /\ purchases[p].exists
    /\ purchases[p].status \in {"MONITORING", "PRICE_DROP_DETECTED"}
    /\ purchases[p].hasUrl
    /\ purchases[p].protectionEnds # NoDate
    /\ purchases[p].protectionEnds >= now

\* purchase.findMany({where, orderBy: {updatedAt: 'asc'}, take}); rows are
\* taken in id order, the model keeps no updatedAt
CheckAllList(t) ==
    /\ Idle(t)
    /\ \A p \in PurchaseIds : Len(priceHistory[p]) < MaxObs
    /\ LET list == SelectSeq([p \in PurchaseIds |-> p], SweepEligible)
       IN task' = [task EXCEPT ![t] =
            [IdleTask EXCEPT !.op = "checkAll", !.pc = "ca_next", !.queue = list,
                             !.listed = list]]
    /\ UNCHANGED <<now, threshold, cards, purchases, priceHistory, claimVars, mailVars>>

\* one iteration: await this.checkPriceForPurchase(purchase.id); return results
CheckAllNext(t) ==
    /\ task[t].pc = "ca_next"
    /\ IF task[t].queue = <<>> THEN Finish(t)
       ELSE task' = [task EXCEPT ![t].pid = Head(task[t].queue),
                                 ![t].queue = Tail(@),
                                 ![t].attempted = Append(@, Head(task[t].queue)),
                                 ![t].pc = "cp_read"]
    /\ UNCHANGED <<now, threshold, cards, purchases, priceHistory, claimVars, mailVars>>

\* the check's findUnique, outside its try, rejects: the sweep's catch, errors++
CheckAllCatch(t) ==
    /\ task[t].op = "checkAll"
    /\ task[t].pc = "cp_read"
    /\ task' = [task EXCEPT ![t].pc = "ca_next", ![t].pid = 0,
                            ![t].errors = @ + 1, ![t].failed = @ + 1]
    /\ UNCHANGED <<now, threshold, cards, purchases, priceHistory, claimVars, mailVars>>

\* two monitored purchases, with or without a product URL
InitBatch ==
    /\ now = 0
    /\ threshold = Unset
    /\ cards = OneCard(TheCard)
    /\ \E url \in BOOLEAN :
        purchases = [p \in PurchaseIds |->
            IF p = 1 THEN [DroppedPurchase EXCEPT !.status = "MONITORING",
                               !.currentPrice = 100, !.lowestPrice = 100]
            ELSE IF p = 2 THEN [DroppedPurchase EXCEPT !.status = "MONITORING",
                               !.currentPrice = 100, !.lowestPrice = 100, !.hasUrl = url]
            ELSE NoPurchase]
    /\ priceHistory = [p \in PurchaseIds |-> IF p \in {1, 2} THEN <<100>> ELSE <<>>]
    /\ task = [t \in Tasks |-> IdleTask]
    /\ claims = [c \in ClaimIds |-> NoClaim]
    /\ filerVersion = "email"
    /\ syncLogs = <<>>
    /\ parserVersion = "rules"
    /\ NoCall

NextBatch ==
    \/ \E t \in Tasks : CheckAllList(t)
    \/ \E t \in Tasks : CheckAllNext(t)
    \/ \E t \in Tasks : CheckAllCatch(t)
    \/ \E t \in Tasks : CheckPriceRead(t)
    \/ \E t \in Tasks, price \in PriceValues \cup {NoPrice} : CheckPriceScrape(t, price)
    \/ \E t \in Tasks : CheckPriceRecord(t)
    \/ \E t \in Tasks : CheckPriceNotify(t)
    \/ \E t \in Tasks : CheckPriceUpdate(t)

SpecBatch == InitBatch /\ [][NextBatch]_vars

\* C29: when the batch sweep returns it has attempted the purchases it
\* selected, each once and in order, and its result counts every failed check
\* under errors and only the others under checked.
SweepCountsFailuresAsErrors ==
    [][\A t \in Tasks :
        (task[t].pc = "ca_next" /\ task'[t].pc = "idle") =>
            /\ task[t].attempted = task[t].listed
            /\ task[t].errors = task[t].failed
            /\ task[t].checked = Len(task[t].listed) - task[t].failed]_vars

----------------------------------------------------------------------------
(* PATCH /purchases/:id with a creditCardId, beside PATCH /cards/:id *)

\* purchase.findFirst; the card is looked up only when it differs
PatchPurchaseRead(t, p, card) ==
    /\ Idle(t)
    /\ purchases[p].exists
    /\ task' = [task EXCEPT ![t] =
            [IdleTask EXCEPT !.op = "patchPurchase", !.pid = p, !.card = card,
                             !.date = purchases[p].purchaseDate,
                             !.ends = purchases[p].protectionEnds,
                             !.pc = IF card # purchases[p].card THEN "pp_card"
                                    ELSE "pp_update"]]
    /\ UNCHANGED <<cards, cardEnv>>

\* creditCard.findFirst: 404, or protectionEnds = purchaseDate + protectionDays
PatchPurchaseCard(t) ==
    /\ task[t].pc = "pp_card"
    /\ IF cards[task[t].card].exists
       THEN task' = [task EXCEPT ![t].ends = task[t].date + cards[task[t].card].protectionDays,
                                 ![t].pc = "pp_update"]
       ELSE Finish(t)
    /\ UNCHANGED <<cards, cardEnv>>

\* purchase.update({data: {creditCardId, protectionEnds}})
PatchPurchaseUpdate(t) ==
    /\ task[t].pc = "pp_update"
    /\ purchases' = [purchases EXCEPT ![task[t].pid] =
            IF @.exists THEN [@ EXCEPT !.card = task[t].card, !.protectionEnds = task[t].ends]
            ELSE @]
    /\ Finish(t)
    /\ UNCHANGED <<now, threshold, cards, priceHistory, claimVars, mailVars>>

TermInputs == {1, 2}   \* protectionDays a user may enter

\* two cards with different terms and a purchase linked to the first
InitTerms ==
    /\ now = 0
    /\ threshold = Unset
    /\ filerVersion = "email"
    /\ cards = [c \in CardIds |->
                    IF c = 1 THEN TheCard
                    ELSE IF c = 2 THEN [TheCard EXCEPT !.lastFour = 2222, !.protectionDays = 2]
                    ELSE NoCardRow]
    /\ purchases = OnePurchase(DroppedPurchase)
    /\ priceHistory = [p \in PurchaseIds |-> IF p = 1 THEN <<100, 80>> ELSE <<>>]
    /\ task = [t \in Tasks |-> IdleTask]
    /\ claims = [c \in ClaimIds |-> NoClaim]
    /\ syncLogs = <<>>
    /\ parserVersion = "rules"
    /\ NoCall

NextTerms ==
    \/ \E t \in Tasks, c \in CardIds, days \in TermInputs :
            PatchCardRead(t, c, "NONE", NoLastFour, days)
    \/ \E t \in Tasks : PatchCardUpdate(t)
    \/ \E t \in Tasks, p \in PurchaseIds, card \in CardIds : PatchPurchaseRead(t, p, card)
    \/ \E t \in Tasks : PatchPurchaseCard(t)
    \/ \E t \in Tasks : PatchPurchaseUpdate(t)

SpecTerms == InitTerms /\ [][NextTerms]_vars

\* C30: every purchase linked to a card has protectionEnds equal to its
\* purchase date plus that card's protectionDays.
ProtectionEndsDerived ==
    \A p \in PurchaseIds :
        (purchases[p].exists /\ purchases[p].card # NoCard) =>
            purchases[p].protectionEnds =
                purchases[p].purchaseDate + cards[purchases[p].card].protectionDays

----------------------------------------------------------------------------
(* Claims about the portal fallback and the expiry sweeps *)

Has(attempts, a) == \E i \in DOMAIN attempts : attempts[i] = a

\* C31: when a run whose portal automation failed then sends the claim over
\* the mail channel, it leaves the claim EMAIL_SENT with a history entry for
\* that outcome.
FallbackEndsEmailSent ==
    [][\A t \in Tasks :
        (/\ task[t].pc = "cs_purchase"
         /\ task'[t].pc # "cs_purchase"
         /\ Has(task[t].tried, "portal_failed")
         /\ Has(task[t].tried, "smtp_ok")
         /\ ClaimExists(task[t].cid)) =>
            LET c == claims'[task[t].cid] IN
            /\ c.status = "EMAIL_SENT"
            /\ c.statusHistory # <<>>
            /\ c.statusHistory[Len(c.statusHistory)] = "EMAIL_SENT"]_vars

\* two purchases in any status, the first window ending on day 0, the second
\* on day 0 or on day 2
PurchaseStatuses ==
    {"MONITORING", "PRICE_DROP_DETECTED", "CLAIM_ELIGIBLE", "CLAIM_FILED",
     "CLAIM_APPROVED", "CLAIM_DENIED", "EXPIRED"}

InitExpiry ==
    /\ now = 0
    /\ threshold = Unset
    /\ filerVersion = "email"
    /\ cards = OneCard(TheCard)
    /\ \E first, second \in PurchaseStatuses, ends \in {0, 2} :
        purchases = [p \in PurchaseIds |->
            IF p = 1 THEN [DroppedPurchase EXCEPT !.status = first, !.protectionEnds = 0]
            ELSE IF p = 2 THEN [DroppedPurchase EXCEPT !.status = second,
                                                       !.protectionEnds = ends]
            ELSE NoPurchase]
    /\ priceHistory = [p \in PurchaseIds |-> IF p \in {1, 2} THEN <<100, 80>> ELSE <<>>]
    /\ task = [t \in Tasks |-> IdleTask]
    /\ claims = [c \in ClaimIds |-> NoClaim]
    /\ syncLogs = <<>>
    /\ parserVersion = "rules"
    /\ NoCall

NextExpiry ==
    \/ Tick
    \/ ExpirePurchases

SpecExpiry == InitExpiry /\ [][NextExpiry]_vars

Lapsed(p) ==
    purchases[p].exists /\ purchases[p].protectionEnds # NoDate
                        /\ purchases[p].protectionEnds < now

\* C32: a run of the expiry sweep sets every purchase whose window has lapsed
\* and whose status is not CLAIM_APPROVED, CLAIM_DENIED or EXPIRED to EXPIRED,
\* and sets no purchase to EXPIRED whose window has not lapsed.
ExpirySweepComplete ==
    [][(\E q \in PurchaseIds : purchases[q].status # "EXPIRED"
                               /\ purchases'[q].status = "EXPIRED") =>
        \A p \in PurchaseIds :
            /\ (Lapsed(p) /\ purchases[p].status \notin TerminalPurchaseStatuses) =>
                    purchases'[p].status = "EXPIRED"
            /\ (purchases[p].status # "EXPIRED" /\ purchases'[p].status = "EXPIRED") =>
                    Lapsed(p)]_vars

----------------------------------------------------------------------------
(* The claim expiry sweep (daily) beside the handlers that file a claim *)

StaleDays == 30

\* claim.updateMany({where: {status in DRAFT / READY_TO_FILE, createdAt < now - 30},
\* data: {status: 'EXPIRED'}}): one conditional statement
ExpirableClaimMutant(c) ==
    /\ ClaimExists(c)
    /\ claims[c].createdAt < now - StaleDays
ExpirableClaim(c) ==
    /\ ClaimExists(c)
    /\ claims[c].status \in {"DRAFT", "READY_TO_FILE"}
    /\ claims[c].createdAt < now - StaleDays

ExpireClaims ==
    /\ \E c \in ClaimIds : ExpirableClaim(c)
    /\ claims' = [c \in ClaimIds |->
            IF ExpirableClaim(c) THEN [claims[c] EXCEPT !.status = "EXPIRED"]
            ELSE claims[c]]
    /\ UNCHANGED <<purchases, task, envVars>>

\* one claim, created today or 30 days ago
InitStale ==
    /\ now = 0
    /\ threshold = Unset
    /\ filerVersion = "email"
    /\ cards = OneCard(TheCard)
    /\ purchases = OnePurchase(DroppedPurchase)
    /\ priceHistory = [p \in PurchaseIds |-> IF p = 1 THEN <<100, 80>> ELSE <<>>]
    /\ task = [t \in Tasks |-> IdleTask]
    /\ \E first \in {RouteClaim, SweepClaim}, age \in {0, StaleDays} :
        claims = [c \in ClaimIds |->
                    IF c = 1 THEN [first EXCEPT !.createdAt = 0 - age] ELSE NoClaim]
    /\ syncLogs = <<>>
    /\ parserVersion = "rules"
    /\ NoCall

NextStale ==
    \/ Tick
    \/ ExpireClaims
    \/ \E t \in Tasks, c \in ClaimIds : AutoFileRouteCheck(t, c)
    \/ EmailFilerStep
    \/ \E t \in Tasks, c \in ClaimIds : MarkFiledRead(t, c)
    \/ \E t \in Tasks : MarkFiledUpdate(t)
    \/ \E t \in Tasks : MarkFiledPurchase(t)
    \/ \E t \in Tasks : MarkFiledNotify(t)
    \/ PatchStatusStep

SpecStale == InitStale /\ [][NextStale]_vars

\* C33: a step sets a claim to EXPIRED only from DRAFT or READY_TO_FILE and
\* only when the claim is more than 30 days old.
ExpiredOnlyFromUnfiledStale ==
    [][\A c \in ClaimIds :
        (claims[c].status # "EXPIRED" /\ claims'[c].status = "EXPIRED") =>
            /\ claims[c].status \in {"DRAFT", "READY_TO_FILE"}
            /\ claims[c].createdAt < now - StaleDays]_vars

\* the sweep has expired a claim that a filing run was working on
ExpiredUnderFiling ==
    \E c \in ClaimIds, t \in Tasks :
        /\ claims[c].status = "EXPIRED"
        /\ task[t].cid = c
        /\ task[t].pc \in FilerPcs \cup {"mf_update"}

-----------------------------------------------------------------------------
(* The headless browser: PriceMonitor.getBrowser / scrapePrice /           *)
(* scrapeWithGenericSelectors / cleanup, and the engine of a portal run    *)

\* scrapePrice(url, retailer) is called; generic = the domain has no entry in
\* PRICE_SELECTORS and scrapeWithGenericSelectors does the fetch
ScrapeStart(t, generic) ==
    /\ Idle(t)
    /\ task' = [task EXCEPT ![t] = [IdleTask EXCEPT !.op = "scrape", !.pc = "gb_check",
                                                    !.generic = generic]]
    /\ UNCHANGED <<envVars, purchases, claims>>

\* getBrowser: if (!this.browser) ... ; the launch is awaited, so the test and
\* the assignment are two steps
GetBrowserCheck(t) ==
    /\ task[t].pc = "gb_check"
    /\ Goto(t, IF browser = 0 THEN "gb_launch" ELSE "sp_page")
    /\ UNCHANGED <<envVars, purchases, claims>>

\* this.browser = await puppeteer.launch(...); a rejected launch is caught by
\* the caller, which returns null
GetBrowserLaunch(t, ok) ==
    /\ task[t].pc = "gb_launch"
    /\ IF ok
       THEN /\ launched < MaxEngines
            /\ launched' = launched + 1
            /\ browser' = launched + 1
            /\ Goto(t, "sp_page")
       ELSE /\ Finish(t)
            /\ UNCHANGED <<browser, launched>>
    /\ UNCHANGED <<now, threshold, cards, purchases, priceHistory, claimVars,
                   syncLogs, parserVersion, callVars, pages>>

\* browser.newPage()
ScrapeNewPage(t, ok) ==
    /\ task[t].pc = "sp_page"
    /\ IF ok
       THEN /\ pages < MaxPages
            /\ pages' = pages + 1
            /\ task' = [task EXCEPT ![t].pc = "sp_goto", ![t].page = TRUE]
       ELSE /\ Finish(t)
            /\ UNCHANGED pages
    /\ UNCHANGED <<now, threshold, cards, purchases, priceHistory, claimVars,
                   syncLogs, parserVersion, callVars, browser, launched>>

\* page.goto(url, {timeout: 30000}); a timeout lands in the catch, which logs
\* and returns null
ScrapeGoto(t, ok) ==
    /\ task[t].pc = "sp_goto"
    /\ IF ok THEN Goto(t, "sp_find") ELSE Finish(t)
    /\ UNCHANGED <<envVars, purchases, claims>>

\* the element lookup: page.$ / page.evaluate inside their own try (an error
\* moves on to the next selector), or page.content() of the generic fetch,
\* whose error lands in the outer catch
ScrapeFind(t, ok) ==
    /\ task[t].pc = "sp_find"
    /\ IF ok \/ ~task[t].generic THEN Goto(t, "sp_close") ELSE Finish(t)
    /\ UNCHANGED <<envVars, purchases, claims>>

\* await page.close(); return price
ScrapeClose(t) ==
    /\ task[t].pc = "sp_close"
    /\ pages' = pages - 1
    /\ Finish(t)
    /\ UNCHANGED <<now, threshold, cards, purchases, priceHistory, claimVars,
                   syncLogs, parserVersion, callVars, browser, launched>>

\* cleanup(): closes the engine this.browser refers to, with its pages, when
\* the process shuts down
Cleanup ==
    /\ browser # 0
    /\ \A t \in Tasks : Idle(t)
    /\ browser' = 0
    /\ launched' = 0
    /\ pages' = 0
    /\ UNCHANGED <<now, threshold, cards, purchases, priceHistory, task, claimVars,
                   syncLogs, parserVersion, callVars>>

\* fileClaimViaPortal: browser = await puppeteer.launch(...) of its own
PortalLaunch(t) ==
    /\ Idle(t)
    /\ launched < MaxEngines
    /\ launched' = launched + 1
    /\ task' = [task EXCEPT ![t] = [IdleTask EXCEPT !.op = "portalRun", !.pc = "pf_engine"]]
    /\ UNCHANGED <<now, threshold, cards, purchases, priceHistory, claimVars,
                   syncLogs, parserVersion, callVars, browser, pages>>

\* the portal run ends: await browser.close() of the engine it started
PortalClose(t) ==
    /\ task[t].pc = "pf_engine"
    /\ Finish(t)
    /\ UNCHANGED <<envVars, purchases, claims>>

InitBrowser ==
    /\ now = 0
    /\ threshold = Unset
    /\ cards = [c \in CardIds |-> NoCardRow]
    /\ purchases = [p \in PurchaseIds |-> NoPurchase]
    /\ priceHistory = [p \in PurchaseIds |-> <<>>]
    /\ task = [t \in Tasks |-> IdleTask]
    /\ claims = [c \in ClaimIds |-> NoClaim]
    /\ filerVersion = "portal"
    /\ syncLogs = <<>>
    /\ parserVersion = "rules"
    /\ NoCall

NextBrowser ==
    \/ \E t \in Tasks, generic \in BOOLEAN : ScrapeStart(t, generic)
    \/ \E t \in Tasks : GetBrowserCheck(t)
    \/ \E t \in Tasks, ok \in BOOLEAN : GetBrowserLaunch(t, ok)
    \/ \E t \in Tasks, ok \in BOOLEAN : ScrapeNewPage(t, ok)
    \/ \E t \in Tasks, ok \in BOOLEAN : ScrapeGoto(t, ok)
    \/ \E t \in Tasks, ok \in BOOLEAN : ScrapeFind(t, ok)
    \/ \E t \in Tasks : ScrapeClose(t)
    \/ Cleanup
    \/ \E t \in Tasks : PortalLaunch(t)
    \/ \E t \in Tasks : PortalClose(t)

SpecBrowser == InitBrowser /\ [][NextBrowser]_vars

\* C34: between two cleanups at most one engine is started, whatever price
\* checks and filing runs ask for one, and none of them starts its own
OneSharedEngine == launched <= 1

\* C35: a fetch that returns leaves as many pages open as there were before
\* it opened its own: the step that returns closes the page the fetch holds
FetchClosesItsPage ==
    [][\A t \in Tasks :
        (task[t].op = "scrape" /\ task'[t].op = "idle" /\ task[t].page) =>
            pages' = pages - 1]_vars

-----------------------------------------------------------------------------
(* A price check that fails *)

\* the catch of checkPriceForPurchase: a call awaited inside the try has
\* rejected; the error is logged and {success: false} returned
CheckPriceCatch(t) ==
    /\ task[t].pc \in {"cp_scrape", "cp_record", "cp_notify", "cp_update"}
    /\ task' = [task EXCEPT ![t] = CheckReturn(t, FALSE)]
    /\ UNCHANGED <<envVars, purchases, claims>>

NextFail ==
    \/ NextChecks
    \/ \E t \in Tasks : CheckPriceCatch(t)

SpecFail == InitPrice /\ [][NextFail]_vars

\* the check has appended its row to priceHistory
Recorded(t) == task[t].pc \in {"cp_notify", "cp_update"}

\* C36: a price check that returns a failure (no price found, or an exception
\* at any step) has appended no observation and created no notification, and
\* returns without writing the purchase
FailedCheckChangesNothing ==
    [][\A t \in Tasks :
        (CheckPriceCatch(t) \/ CheckPriceScrape(t, NoPrice)) =>
            /\ ~Recorded(t)
            /\ task[t].notified = 0
            /\ UNCHANGED <<purchases, priceHistory>>]_vars

-----------------------------------------------------------------------------
(* Claims about the email sync runs *)

InProgress == {i \in DOMAIN syncLogs : syncLogs[i] = "IN_PROGRESS"}

\* C37: at most one sync run of the user is IN_PROGRESS at any time, whether
\* the runs come from the sync route, the scheduled sync or two overlapping
\* requests
OneSyncInProgress == Cardinality(InProgress) <= 1

\* a step of the sync run that task t carries: the continuation of the call
\* the run is awaiting, which the event loop runs once the call has settled
SyncStep(t) ==
    \/ SyncCreateLog(t)
    \/ \E ok \in BOOLEAN : SyncList(t, ok)
    \/ \E ok \in BOOLEAN : SyncNext(t, ok)
    \/ SyncComplete(t)
    \/ SyncFailed(t)
    \/ ExtractExisting(t)
    \/ ExtractMatchCard(t)
    \/ \E outcome \in CardOutcomes : ExtractNewCard(t, outcome)
    \/ ExtractCreate(t)
    \/ ExtractHistory(t)
    \/ AiExisting(t)
    \/ \E n \in AiItemCounts : AiParse(t, n)
    \/ AiCreate(t)
    \/ AiHistory(t)

\* every call a sync run awaits settles (it resolves or rejects)
FairSync == \A t \in Tasks : WF_vars(SyncStep(t))

SpecSync == InitExtract /\ [][NextExtract]_vars /\ FairSync

\* the purchase table of the model is full: a run that has a purchase to
\* create can go no further
SyncAtBound == FreePurchaseIds = {}

SyncEnded(i) == i \in DOMAIN syncLogs /\ syncLogs[i] \in {"COMPLETED", "FAILED"}

-----------------------------------------------------------------------------
(* Purchase status against claim status *)

\* the claim has been submitted: EMAIL_SENT or FILED, or a status of the
\* issuer's review that follows them
FiledOrLater == {"EMAIL_SENT", "FILED", "PENDING_REVIEW", "APPROVED", "DENIED"}

\* C39: a purchase whose status is CLAIM_FILED has a claim that is EMAIL_SENT,
\* FILED or in a later review status; it is never CLAIM_FILED while its only
\* claims are DRAFT, READY_TO_FILE, EXPIRED or deleted
FiledPurchaseHasFiledClaim ==
    \A p \in PurchaseIds :
        purchases[p].status = "CLAIM_FILED" =>
            \E c \in ClaimIds : claims[c].purchase = p /\ claims[c].status \in FiledOrLater

====
